---- MODULE Spec2Model ----
(***************************************************************************)
(* Kanby: the transactional entity store (boards, lists, cards), the       *)
(* append-only activity log and the undo engine, as a state machine.       *)
(*                                                                         *)
(* Identifiers (cuid strings in the program) are positive integers drawn   *)
(* from per-table counters, so an id is never reused.  Positions are       *)
(* doubles in the program; here they are fixed-point numbers with          *)
(* PosUnit units per 1.0.  Timestamps are values of a logical clock that   *)
(* advances once per committed transaction.  A row's own createdAt and     *)
(* updatedAt columns (lists, cards) are not modelled.                      *)
(***************************************************************************)
EXTENDS Integers, Sequences, FiniteSets, TLC

VARIABLES boards, lists, cards, events, nextId, clock, last, undoneOk, inflight, limits,
          effects, calc, subscribersByBoard, streams, delivery, calls, viewer

db == <<boards, lists, cards, events, nextId, clock>>
\* what no store handler reads or writes
outside == <<calc, subscribersByBoard, streams, delivery, calls, viewer>>
vars == <<boards, lists, cards, events, nextId, clock, last, undoneOk, inflight, limits,
          effects, calc, subscribersByBoard, streams, delivery, calls, viewer>>

(***************************************************************************)
(* Bounds of the model.                                                    *)
(***************************************************************************)
\* Spec: committed transactions per behaviour, cards ever created
MaxOps == 4
MaxCards == 2
\* SpecDeep: longer behaviours over fewer cards
MaxDeepOps == 5
MaxDeepCards == 1
\* SpecMove: creates and moves only, over more cards
MaxMoveOps == 5
MaxMoveCards == 3
\* SpecActivity: activity queries over two boards
MaxActivityOps == 3
MaxActivityCards == 1
MaxActivityBoards == 2
\* SpecRestore: deletes and interleaved undos over two boards
MaxRestoreOps == 5
MaxRestoreCards == 1
MaxRestoreBoards == 2
\* SpecBoards: requests on boards and their lists
MaxBoardsOps == 5
MaxBoardsBoards == 2
\* SpecAppend: interleaved creates of lists and cards on one board
MaxAppendOps == 4
MaxAppendCards == 2
MaxAppendLists == 2
\* SpecReturn: moves of two cards and undos of the moves
MaxReturnOps == 6
MaxReturnCards == 2
\* SpecRegistry: calls of the notifier's functions, callbacks
MaxRegistryCalls == 5
MaxCallbacks == 2
\* SpecViewer: commits of the other clients and of the viewer, cards
MaxViewerOps == 3
MaxViewerCards == 1
\* SpecPosition: argument positions 0, 1/2, 1, ... up to MaxPosition
MaxPosition == 8
\* boards ever created, lists ever created by CreateList
MaxBoards == 1
MaxExtraLists == 1
\* SpecRealtime: board channels, event streams ever opened, publish calls,
\* chunks a stream's keep-alive timer adds after the greeting
MaxChannels == 2
MaxStreams == 3
MaxPublishes == 2
MaxPings == 1

(***************************************************************************)
(* Input alphabets.                                                        *)
(***************************************************************************)
Null == "null"
NoId == 0
DefaultBoardName == "My Board"
NewBoardName == "Sprint"
DefaultListTitles == <<"Todo", "Doing", "Done">>
ListTitles == {"Later"}
CardTitles == {"Fix bug"}
NewCardTitles == {"Fix crash"}
NewDescriptions == {"steps"}
Dates == {"D1", "D2"}
Actors == {"a1", "a2"}
Requests == {"r1", "r2"}

(***************************************************************************)
(* Dates cross the JSON column as ISO strings.                             *)
(***************************************************************************)
toISOString(d) == IF d = "D1" THEN "2024-01-01T00:00:00.000Z" ELSE "2024-02-02T00:00:00.000Z"

asDate(s) == IF s = "2024-01-01T00:00:00.000Z" THEN "D1" ELSE "D2"

(***************************************************************************)
(* JSON values stored in ActivityEvent.data.  A JSON object is a record    *)
(* holding exactly its keys; JSON null is JNull.                           *)
(***************************************************************************)
JNull == [null |-> TRUE]

IsNull(v) == "null" \in DOMAIN v

Restrict(v, keys) == [k \in (DOMAIN v) \cap keys |-> v[k]]

\* A card row as selected by the handlers and serialised into the JSON column.
CardJson(id) ==
  [id |-> id, boardId |-> cards[id].boardId, listId |-> cards[id].listId,
   title |-> cards[id].title, description |-> cards[id].description,
   dueAt |-> IF cards[id].dueAt = Null THEN Null ELSE toISOString(cards[id].dueAt),
   position |-> cards[id].position]

RowJson(id, row) ==
  [id |-> id, boardId |-> row.boardId, listId |-> row.listId,
   title |-> row.title, description |-> row.description,
   dueAt |-> IF row.dueAt = Null THEN Null ELSE toISOString(row.dueAt),
   position |-> row.position]

(***************************************************************************)
(* Position allocator.  An absent argument (null/undefined) is << >>, a    *)
(* present one is <<p>>.                                                   *)
(***************************************************************************)
PosUnit == 10000 * 16
Epsilon == PosUnit \div 10000

\* variant: an absent last position counts as -1
positionAfterFromZero(lastPos) == (IF lastPos = << >> THEN 0 - PosUnit ELSE lastPos[1]) + PosUnit

positionAfter(lastPos) == (IF lastPos = << >> THEN 0 ELSE lastPos[1]) + PosUnit

\* variant: the midpoint branch answers the upper neighbour's position
positionBetweenUpper(prev, next) ==
  IF prev = << >> /\ next = << >> THEN 0
  ELSE IF prev = << >> THEN next[1] - PosUnit
  ELSE IF next = << >> THEN prev[1] + PosUnit
  ELSE next[1]

positionBetween(prev, next) ==
  IF prev = << >> /\ next = << >> THEN 0
  ELSE IF prev = << >> THEN next[1] - PosUnit
  ELSE IF next = << >> THEN prev[1] + PosUnit
  ELSE LET mid == (prev[1] + next[1]) \div 2
       IN IF mid = prev[1] \/ mid = next[1] THEN prev[1] + Epsilon ELSE mid

(***************************************************************************)
(* Queries.                                                                *)
(***************************************************************************)
MaxOf(S) == CHOOSE x \in S : \A y \in S : y <= x

CardsIn(l) == {c \in DOMAIN cards : cards[c].listId = l}

ListsOf(b) == {l \in DOMAIN lists : lists[l].boardId = b}

\* findFirst({where: {listId}, orderBy: {position: "desc"}})?.position
LastCardPos(l) ==
  IF CardsIn(l) = {} THEN << >> ELSE <<MaxOf({cards[c].position : c \in CardsIn(l)})>>

\* findFirst({where: {boardId}, orderBy: {position: "desc"}})?.position
LastListPos(b) ==
  IF ListsOf(b) = {} THEN << >> ELSE <<MaxOf({lists[l].position : l \in ListsOf(b)})>>

EventsOf(b) == {e \in DOMAIN events : events[e].boardId = b}

(***************************************************************************)
(* Relational schema: referential actions of the storage layer.            *)
(***************************************************************************)
\* variant: the card table carries no reference to the list table
CardListFkAbsent(l) == TRUE

\* Card.listId references List.id.
CardListFk(l) == l \in DOMAIN lists

\* variant: the delete of the board row cascades to no other table
CascadeBoardNowhere(table, b) == table

\* rows of a table that survive the cascade of a deleted board
CascadeBoard(table, b) == [x \in {y \in DOMAIN table : table[y].boardId # b} |-> table[x]]

\* card rows that survive the cascade of a deleted board: a card goes with
\* its board and with its list
CascadeBoardCards(b) ==
  LET kept == CascadeBoard(cards, b)
  IN [c \in {y \in DOMAIN kept : kept[y].listId \in DOMAIN CascadeBoard(lists, b)} |-> kept[c]]

\* variant: the cascade spares the first card of the list
CascadeListButOne(l) ==
  [c \in {y \in DOMAIN cards : cards[y].listId # l \/ \A z \in CardsIn(l) : y <= z} |-> cards[c]]

\* card rows that survive the cascade of a deleted list
CascadeList(l) == [c \in {y \in DOMAIN cards : cards[y].listId # l} |-> cards[c]]

(***************************************************************************)
(* Writes shared by the handlers.                                          *)
(***************************************************************************)
Now == clock + 1

Event(b, etype, eid, type, actor, data) ==
  [boardId |-> b, entityType |-> etype, entityId |-> eid, type |-> type,
   actorClientId |-> actor, data |-> data, createdAt |-> Now]

\* variant: the handlers leave the board row alone
TouchBoardSkipped(bs, b) == bs

\* tx.board.update({where: {id: b}, data: {updatedAt: new Date()}})
TouchBoard(bs, b) == [bs EXCEPT ![b].updatedAt = Now]

\* no call of the position allocator under evaluation
NoCall == [fn |-> "none"]

\* no call of publishBoardEvent yet
NoDelivery == [seq |-> 0, boardId |-> 0, invoked |-> << >>, threw |-> {}, returned |-> TRUE]

\* the board page before it is opened: nothing displayed, no EventSource, no
\* request in flight
NoViewer ==
  [mounted |-> FALSE, boardId |-> 0, state |-> << >>, es |-> 0, connected |-> FALSE,
   inbox |-> 0, fetches |-> {}, nfetch |-> 0, move |-> [phase |-> "none"]]

\* the registry before any subscription, no stream opened
InitRealtime ==
  /\ subscribersByBoard = << >>
  /\ streams = << >>
  /\ delivery = NoDelivery
  /\ calls = << >>
  /\ viewer = NoViewer

Response(op, res, id) == [op |-> op, res |-> res, id |-> id]

InitWith(lim) ==
  /\ boards = << >>
  /\ lists = << >>
  /\ cards = << >>
  /\ events = << >>
  /\ nextId = [board |-> 1, list |-> 1, card |-> 1, event |-> 1]
  /\ clock = 0
  /\ last = Response("none", "none", NoId)
  /\ undoneOk = {}
  /\ inflight = [r \in Requests |-> [pc |-> "idle"]]
  /\ limits = lim
  /\ calc = NoCall
  /\ effects = << >>
  /\ InitRealtime

Init == InitWith([ops |-> MaxOps, cards |-> MaxCards, boards |-> MaxBoards])

\* the model follows a behaviour for limits.ops committed transactions
Budget == clock < limits.ops

(***************************************************************************)
(* Transaction outcomes.  A handler that returns early, and one whose      *)
(* transaction throws and rolls back, writes nothing.                      *)
(***************************************************************************)
Fail(op, res, id) ==
  /\ Budget
  /\ last' = Response(op, res, id)
  /\ effects' = << >>
  /\ UNCHANGED <<db, undoneOk, inflight, limits, outside>>

Commit(op, id) ==
  /\ Budget
  /\ clock' = Now
  /\ last' = Response(op, "ok", id)
  /\ UNCHANGED <<inflight, limits, outside>>

\* variant: the handler writes no activity row
LogEventSkipped(b, etype, eid, type, actor, data) ==
  /\ events' = events

\* variant: the handler publishes before its transaction
NotifyFirst(b, payload) ==
  effects' = <<[kind |-> "publish", boardId |-> b, type |-> "board.changed", payload |-> payload],
               [kind |-> "commit", at |-> Now]>>

\* What a handler does after its transaction callback returned a result: the
\* transaction commits, then publishBoardEvent(b, "board.changed", payload).
Notify(b, payload) ==
  effects' = <<[kind |-> "commit", at |-> Now],
               [kind |-> "publish", boardId |-> b, type |-> "board.changed", payload |-> payload]>>

LogEvent(b, etype, eid, type, actor, data) ==
  /\ events' = events @@ (nextId.event :> Event(b, etype, eid, type, actor, data))

(***************************************************************************)
(* POST /api/boards                                                        *)
(***************************************************************************)
\* variant: the default lists are numbered from 0
defaultListsFromZero(b) ==
  [i \in 1..3 |-> [boardId |-> b, title |-> DefaultListTitles[i], position |-> (i - 1) * PosUnit]]

\* the rows of the three tx.list.create calls
defaultLists(b) ==
  [i \in 1..3 |-> [boardId |-> b, title |-> DefaultListTitles[i], position |-> i * PosUnit]]

CreateBoard(name, actor) ==
  /\ nextId.board <= limits.boards
  /\ LET b == nextId.board
         l0 == nextId.list
         e0 == nextId.event
         newLists == defaultLists(b)
     IN /\ boards' = boards @@ (b :> [name |-> name, createdAt |-> Now, updatedAt |-> Now])
        /\ lists' = lists @@ [l \in l0..(l0 + 2) |-> newLists[l - l0 + 1]]
        /\ events' = events
             @@ (e0 :> Event(b, "BOARD", b, "board.created", actor,
                             [before |-> JNull, after |-> [id |-> b, name |-> name]]))
             @@ [e \in (e0 + 1)..(e0 + 3) |->
                   Event(b, "LIST", l0 + (e - e0 - 1), "list.created", actor,
                         [before |-> JNull,
                          after |-> [id |-> l0 + (e - e0 - 1),
                                     title |-> newLists[e - e0].title,
                                     position |-> newLists[e - e0].position]])]
        /\ nextId' = [nextId EXCEPT !.board = b + 1, !.list = l0 + 3, !.event = e0 + 4]
        /\ Commit("CreateBoard", b)
        /\ Notify(b, [reason |-> "board.created"])
  /\ UNCHANGED <<cards, undoneOk>>

(***************************************************************************)
(* PATCH /api/boards/[boardId]                                             *)
(***************************************************************************)
\* Board.updatedAt is maintained by the storage layer on every update of the row.
BoardRowUpdated(row) == [row EXCEPT !.updatedAt = Now]

RenameBoard(b, name, actor) ==
  IF b \notin DOMAIN boards THEN Fail("RenameBoard", "notFound", b)
  ELSE /\ boards' = [boards EXCEPT ![b] = BoardRowUpdated([@ EXCEPT !.name = name])]
       /\ LogEvent(b, "BOARD", b, "board.renamed", actor,
                   [before |-> [id |-> b, name |-> boards[b].name],
                    after |-> [id |-> b, name |-> name]])
       /\ nextId' = [nextId EXCEPT !.event = @ + 1]
       /\ Commit("RenameBoard", b)
       /\ Notify(b, [reason |-> "board.renamed"])
       /\ UNCHANGED <<lists, cards, undoneOk>>

(***************************************************************************)
(* DELETE /api/boards/[boardId]                                            *)
(***************************************************************************)
DeleteBoard(b) ==
  IF b \notin DOMAIN boards THEN Fail("DeleteBoard", "notFound", b)
  ELSE /\ boards' = [x \in DOMAIN boards \ {b} |-> boards[x]]
       /\ lists' = CascadeBoard(lists, b)
       /\ cards' = CascadeBoardCards(b)
       /\ events' = CascadeBoard(events, b)
       /\ Commit("DeleteBoard", b)
       /\ Notify(b, [reason |-> "board.deleted"])
       /\ UNCHANGED <<nextId, undoneOk>>

(***************************************************************************)
(* POST /api/boards/[boardId]/lists                                        *)
(***************************************************************************)
\* the writes of the transaction, lastPos being what its findFirst returned
ListCreated(b, title, actor, lastPos) ==
  /\ LET l == nextId.list
         row == [boardId |-> b, title |-> title, position |-> positionAfter(lastPos)]
     IN /\ lists' = lists @@ (l :> row)
        /\ LogEvent(b, "LIST", l, "list.created", actor,
                    [before |-> JNull,
                     after |-> [id |-> l, boardId |-> b, title |-> title,
                                position |-> row.position]])
        /\ nextId' = [nextId EXCEPT !.list = l + 1, !.event = @ + 1]
  /\ boards' = TouchBoard(boards, b)
  /\ Notify(b, [reason |-> "list.created", listId |-> nextId.list])
  /\ UNCHANGED <<cards, undoneOk>>

CreateList(b, title, actor) ==
  IF b \notin DOMAIN boards THEN Fail("CreateList", "error", b)
  ELSE /\ nextId.list <= 3 * limits.boards + MaxExtraLists
       /\ ListCreated(b, title, actor, LastListPos(b))
       /\ Commit("CreateList", b)

(***************************************************************************)
(* PATCH and DELETE /api/boards/[boardId]/lists/[listId]                   *)
(***************************************************************************)
ListJson(l) ==
  [id |-> l, boardId |-> lists[l].boardId, title |-> lists[l].title,
   position |-> lists[l].position]

\* variant: the list is looked up by its id alone
ListAnywhere(b, l) == l \in DOMAIN lists

\* findFirst({where: {id: l, boardId: b}})
ListOnBoard(b, l) == l \in DOMAIN lists /\ lists[l].boardId = b

RenameList(b, l, title, actor) ==
  IF ~ListOnBoard(b, l) THEN Fail("RenameList", "notFound", l)
  ELSE /\ lists' = [lists EXCEPT ![l].title = title]
       /\ LogEvent(b, "LIST", l, "list.renamed", actor,
                   [before |-> ListJson(l), after |-> [ListJson(l) EXCEPT !.title = title]])
       /\ nextId' = [nextId EXCEPT !.event = @ + 1]
       /\ boards' = TouchBoard(boards, b)
       /\ Commit("RenameList", l)
       /\ Notify(b, [reason |-> "list.renamed", listId |-> l])
       /\ UNCHANGED <<cards, undoneOk>>

DeleteList(b, l, actor) ==
  IF ~ListOnBoard(b, l) THEN Fail("DeleteList", "notFound", l)
  ELSE /\ lists' = [x \in DOMAIN lists \ {l} |-> lists[x]]
       /\ cards' = CascadeList(l)
       /\ LogEvent(b, "LIST", l, "list.deleted", actor,
                   [before |-> ListJson(l) @@ [cardCount |-> Cardinality(CardsIn(l))],
                    after |-> JNull])
       /\ nextId' = [nextId EXCEPT !.event = @ + 1]
       /\ boards' = TouchBoard(boards, b)
       /\ Commit("DeleteList", l)
       /\ Notify(b, [reason |-> "list.deleted", listId |-> l])
       /\ UNCHANGED undoneOk

(***************************************************************************)
(* POST /api/boards/[boardId]/lists/[listId]/cards                         *)
(* body: a record holding title and, when given, description and dueAt     *)
(***************************************************************************)
\* the writes of the transaction, lastPos being what its findFirst returned
CardCreated(b, l, body, actor, lastPos) ==
  /\ LET c == nextId.card
         row == [boardId |-> b, listId |-> l, title |-> body.title,
                 description |-> IF "description" \in DOMAIN body
                                 THEN body.description ELSE "",
                 dueAt |-> IF "dueAt" \in DOMAIN body THEN asDate(body.dueAt) ELSE Null,
                 position |-> positionAfter(lastPos)]
     IN /\ cards' = cards @@ (c :> row)
        /\ LogEvent(b, "CARD", c, "card.created", actor,
                    [before |-> JNull, after |-> RowJson(c, row)])
        /\ nextId' = [nextId EXCEPT !.card = c + 1, !.event = @ + 1]
  /\ boards' = TouchBoard(boards, b)
  /\ Notify(b, [reason |-> "card.created", cardId |-> nextId.card])
  /\ UNCHANGED <<lists, undoneOk>>

CreateCard(b, l, body, actor) ==
  IF b \notin DOMAIN boards \/ ~CardListFk(l) THEN Fail("CreateCard", "error", l)
  ELSE /\ nextId.card <= limits.cards
       /\ CardCreated(b, l, body, actor, LastCardPos(l))
       /\ Commit("CreateCard", nextId.card)

(***************************************************************************)
(* PATCH /api/cards/[cardId]                                               *)
(* patch: a record holding the keys of the body among title, description   *)
(* and dueAt (an ISO string or Null)                                       *)
(***************************************************************************)
\* PatchCardSchema: at least one field is required
PatchCardSchema(patch) == DOMAIN patch # {}

\* the row after tx.card.update({data: updateData})
PatchedRow(row, patch) ==
  [row EXCEPT
     !.title = IF "title" \in DOMAIN patch THEN patch.title ELSE @,
     !.description = IF "description" \in DOMAIN patch THEN patch.description ELSE @,
     !.dueAt = IF "dueAt" \in DOMAIN patch
               THEN (IF patch.dueAt = Null THEN Null ELSE asDate(patch.dueAt))
               ELSE @]

UpdateCard(c, patch, actor) ==
  IF ~PatchCardSchema(patch) THEN Fail("UpdateCard", "invalid", c)
  ELSE IF c \notin DOMAIN cards THEN Fail("UpdateCard", "notFound", c)
  ELSE /\ LET before == CardJson(c)
              row == PatchedRow(cards[c], patch)
          IN /\ cards' = [cards EXCEPT ![c] = row]
             /\ LogEvent(before.boardId, "CARD", c, "card.updated", actor,
                         [before |-> before, after |-> RowJson(c, row)])
             /\ boards' = TouchBoard(boards, before.boardId)
       /\ nextId' = [nextId EXCEPT !.event = @ + 1]
       /\ Commit("UpdateCard", c)
       /\ Notify(cards[c].boardId, [reason |-> "card.updated", cardId |-> c])
       /\ UNCHANGED <<lists, undoneOk>>

(***************************************************************************)
(* DELETE /api/cards/[cardId]                                              *)
(***************************************************************************)
DeleteCard(c, actor) ==
  IF c \notin DOMAIN cards THEN Fail("DeleteCard", "notFound", c)
  ELSE /\ cards' = [x \in DOMAIN cards \ {c} |-> cards[x]]
       /\ LogEvent(cards[c].boardId, "CARD", c, "card.deleted", actor,
                   [before |-> CardJson(c), after |-> JNull])
       /\ boards' = TouchBoard(boards, cards[c].boardId)
       /\ nextId' = [nextId EXCEPT !.event = @ + 1]
       /\ Commit("DeleteCard", c)
       /\ Notify(cards[c].boardId, [reason |-> "card.deleted", cardId |-> c])
       /\ UNCHANGED <<lists, undoneOk>>

(***************************************************************************)
(* POST /api/cards/[cardId]/move                                           *)
(* beforeCardId / afterCardId: a card id, or NoId when not supplied        *)
(***************************************************************************)
\* parsed.data.xCardId ? await tx.card.findUnique(...) : null
Neighbor(id) == IF id # NoId /\ id \in DOMAIN cards THEN <<id>> ELSE << >>

NeighborPos(n) == IF n = << >> THEN << >> ELSE <<cards[n[1]].position>>

\* nextPos of the move handler
MovePosition(toListId, beforeNeighbor, afterNeighbor) ==
  IF beforeNeighbor = << >> /\ afterNeighbor = << >>
  THEN positionBetween(LastCardPos(toListId), << >>)
  ELSE positionBetween(NeighborPos(beforeNeighbor), NeighborPos(afterNeighbor))

\* variant: only the card before is checked against the target list
invalidNeighborsBeforeOnly(toListId, beforeNeighbor, afterNeighbor) ==
  beforeNeighbor # << >> /\ cards[beforeNeighbor[1]].listId # toListId

\* a neighbour that was found lies in another list than the target
invalidNeighbors(toListId, beforeNeighbor, afterNeighbor) ==
  \/ beforeNeighbor # << >> /\ cards[beforeNeighbor[1]].listId # toListId
  \/ afterNeighbor # << >> /\ cards[afterNeighbor[1]].listId # toListId

MoveCard(c, toListId, beforeCardId, afterCardId, actor) ==
  LET beforeNeighbor == Neighbor(beforeCardId)
      afterNeighbor == Neighbor(afterCardId)
  IN IF c \notin DOMAIN cards THEN Fail("MoveCard", "notFound", c)
     ELSE IF invalidNeighbors(toListId, beforeNeighbor, afterNeighbor)
     THEN Fail("MoveCard", "conflict", c)
     ELSE IF ~CardListFk(toListId) THEN Fail("MoveCard", "error", c)
     ELSE /\ LET nextPos == MovePosition(toListId, beforeNeighbor, afterNeighbor)
             IN /\ cards' = [cards EXCEPT ![c].listId = toListId, ![c].position = nextPos]
                /\ LogEvent(cards[c].boardId, "CARD", c, "card.moved", actor,
                            [before |-> [listId |-> cards[c].listId,
                                         position |-> cards[c].position],
                             after |-> [listId |-> toListId, position |-> nextPos]])
          /\ boards' = TouchBoard(boards, cards[c].boardId)
          /\ nextId' = [nextId EXCEPT !.event = @ + 1]
          /\ Commit("MoveCard", c)
          /\ Notify(cards[c].boardId, [reason |-> "card.moved", cardId |-> c])
          /\ UNCHANGED <<lists, undoneOk>>

(***************************************************************************)
(* POST /api/boards/[boardId]/activity/clear                               *)
(***************************************************************************)
\* variant: the handler also deletes the board's earlier events
ClearActivityErasing(b, actor) ==
  IF b \notin DOMAIN boards THEN Fail("ClearActivity", "notFound", b)
  ELSE /\ events' = [x \in {nextId.event} \cup {y \in DOMAIN events : events[y].boardId # b} |->
                       IF x = nextId.event
                       THEN Event(b, "BOARD", b, "activity.cleared", actor,
                                  [before |-> JNull, after |-> JNull])
                       ELSE events[x]]
       /\ boards' = TouchBoard(boards, b)
       /\ nextId' = [nextId EXCEPT !.event = @ + 1]
       /\ Commit("ClearActivity", b)
       /\ Notify(b, [reason |-> "activity.cleared"])
       /\ UNCHANGED <<lists, cards, undoneOk>>

ClearActivity(b, actor) ==
  IF b \notin DOMAIN boards THEN Fail("ClearActivity", "notFound", b)
  ELSE /\ LogEvent(b, "BOARD", b, "activity.cleared", actor,
                   [before |-> JNull, after |-> JNull])
       /\ boards' = TouchBoard(boards, b)
       /\ nextId' = [nextId EXCEPT !.event = @ + 1]
       /\ Commit("ClearActivity", b)
       /\ Notify(b, [reason |-> "activity.cleared"])
       /\ UNCHANGED <<lists, cards, undoneOk>>

(***************************************************************************)
(* POST /api/activity/[eventId]/undo                                       *)
(***************************************************************************)
CardStateKeys == {"id", "boardId", "listId", "title", "description", "dueAt", "position"}
CardPatchKeys == {"listId", "title", "description", "dueAt", "position"}

\* (v.dueAt ?? undefined): a null dueAt is dropped like a missing one
Defined(v, keys) == {k \in (DOMAIN v) \cap keys : k # "dueAt" \/ v[k] # Null}

asCardState(value) ==
  IF IsNull(value) THEN JNull
  ELSE IF ~({"id", "boardId", "listId"} \subseteq DOMAIN value) THEN JNull
  ELSE Restrict(value, Defined(value, CardStateKeys))

\* variant: a patch is accepted only when it carries a title
asCardPatchWithTitle(value) ==
  IF IsNull(value) THEN JNull
  ELSE IF "title" \notin Defined(value, CardPatchKeys) THEN JNull
  ELSE Restrict(value, Defined(value, CardPatchKeys))

asCardPatch(value) ==
  IF IsNull(value) THEN JNull
  ELSE IF Defined(value, CardPatchKeys) = {} THEN JNull
  ELSE Restrict(value, Defined(value, CardPatchKeys))

\* variant: the lookup compares revertedEventId with the event's entity id
AlreadyUndoneByEntity(e) ==
  \E u \in DOMAIN events :
    /\ events[u].boardId = events[e].boardId
    /\ events[u].type = "card.undone"
    /\ "revertedEventId" \in DOMAIN events[u].data
    /\ events[u].data.revertedEventId = events[e].entityId

\* findFirst({where: {boardId, type: "card.undone", data: {path: ["revertedEventId"], equals}}})
AlreadyUndone(e) ==
  \E u \in DOMAIN events :
    /\ events[u].boardId = events[e].boardId
    /\ events[u].type = "card.undone"
    /\ "revertedEventId" \in DOMAIN events[u].data
    /\ events[u].data.revertedEventId = e

\* variant: updateData takes every field of beforePatch but the position
UndoUpdateDataWithoutPosition(beforePatch) ==
  [k \in ((DOMAIN beforePatch) \cap CardPatchKeys) \ {"position"} |->
     IF k = "dueAt" THEN (IF beforePatch[k] = Null THEN Null ELSE asDate(beforePatch[k]))
     ELSE beforePatch[k]]

\* updateData built from beforePatch
UndoUpdateData(beforePatch) ==
  [k \in (DOMAIN beforePatch) \cap CardPatchKeys |->
     IF k = "dueAt" THEN (IF beforePatch[k] = Null THEN Null ELSE asDate(beforePatch[k]))
     ELSE beforePatch[k]]

\* variant: fields missing from updateData fall back to the create defaults
RevertedRowReset(row, updateData) ==
  [k \in DOMAIN row |->
     IF k \in DOMAIN updateData THEN updateData[k]
     ELSE IF k = "title" THEN "Untitled"
     ELSE IF k = "description" THEN ""
     ELSE IF k = "dueAt" THEN Null
     ELSE row[k]]

\* the row after tx.card.update({data: updateData})
RevertedRow(row, updateData) ==
  [k \in DOMAIN row |-> IF k \in DOMAIN updateData THEN updateData[k] ELSE row[k]]

\* variant: the recreated card is appended at position 0
RestoredRowAtZero(beforeState) ==
  [boardId |-> beforeState.boardId, listId |-> beforeState.listId,
   title |-> IF "title" \in DOMAIN beforeState THEN beforeState.title ELSE "Untitled",
   description |-> IF "description" \in DOMAIN beforeState THEN beforeState.description ELSE "",
   dueAt |-> IF "dueAt" \in DOMAIN beforeState THEN asDate(beforeState.dueAt) ELSE Null,
   position |-> 0]

\* the row of tx.card.create for a deleted card's before snapshot
RestoredRow(beforeState) ==
  [boardId |-> beforeState.boardId, listId |-> beforeState.listId,
   title |-> IF "title" \in DOMAIN beforeState THEN beforeState.title ELSE "Untitled",
   description |-> IF "description" \in DOMAIN beforeState THEN beforeState.description ELSE "",
   dueAt |-> IF "dueAt" \in DOMAIN beforeState THEN asDate(beforeState.dueAt) ELSE Null,
   position |-> IF "position" \in DOMAIN beforeState THEN beforeState.position ELSE 0]

\* variant: the delete statement leaves the row in place
CardRowsKept(c) == cards

\* the card table after tx.card.delete({where: {id: c}})
CardRowsWithout(c) == [x \in DOMAIN cards \ {c} |-> cards[x]]

Early(res) == [res |-> res]

\* variant: the revert branch also takes the event an undo logs
RevertsUndone(type) == type \in {"card.moved", "card.updated", "card.undone"}

\* the event types of the branch that writes the before values back
Reverts(type) == type \in {"card.moved", "card.updated"}

\* variant: the restore only requires that the snapshot's list exists
RestoreRefusalListOnly(beforeState) ==
  IF beforeState.listId \notin DOMAIN lists THEN "unsupported" ELSE "none"

\* the guards of the card.deleted branch: the snapshot's list, then a card
\* that already has the snapshot's id
RestoreRefusal(beforeState) ==
  IF \/ beforeState.listId \notin DOMAIN lists
     \/ lists[beforeState.listId].boardId # beforeState.boardId
  THEN "unsupported"
  ELSE IF beforeState.id \in DOMAIN cards THEN "alreadyUndone"
  ELSE "none"

\* The undo transaction once the event row has been read and no undo marker
\* was found for it, up to its first write: either the early return, or what
\* the writes will use.
UndoRest(e, event) ==
  IF event.entityType # "CARD" THEN Early("unsupported")
  ELSE
    LET beforeState == asCardState(event.data.before)
        beforePatch == IF ~IsNull(beforeState) THEN beforeState
                       ELSE asCardPatch(event.data.before)
        c == event.entityId
    IN IF event.type = "card.created" THEN
         IF c \notin DOMAIN cards THEN Early("notFound")
         ELSE [res |-> "write", effect |-> "deleted", event |-> e, boardId |-> event.boardId,
               entityId |-> c, card |-> c, existing |-> CardJson(c)]
       ELSE IF Reverts(event.type) THEN
         IF IsNull(beforePatch) THEN Early("invalidData")
         ELSE IF c \notin DOMAIN cards THEN Early("notFound")
         ELSE [res |-> "write", effect |-> "reverted", event |-> e, boardId |-> event.boardId,
               entityId |-> c, card |-> c, existing |-> CardJson(c),
               updateData |-> UndoUpdateData(beforePatch)]
       ELSE IF event.type = "card.deleted" THEN
         IF IsNull(beforeState) THEN Early("invalidData")
         ELSE IF RestoreRefusal(beforeState) # "none"
         THEN Early(RestoreRefusal(beforeState))
         ELSE [res |-> "write", effect |-> "restored", event |-> e, boardId |-> event.boardId,
               entityId |-> c, card |-> beforeState.id, beforeState |-> beforeState]
       ELSE Early("unsupported")

\* The reads of the undo transaction, up to its first write.
UndoReads(e) ==
  IF e \notin DOMAIN events THEN Early("notFound")
  ELSE IF AlreadyUndone(e) THEN Early("alreadyUndone")
  ELSE UndoRest(e, events[e])

\* The writes of the undo transaction against the rows as they are when the
\* statements run: ok is FALSE when a statement throws (row to update or delete
\* missing, duplicate id, foreign key) and the transaction rolls back.
UndoWrites(plan) ==
  LET c == plan.card
      boardOk == plan.boardId \in DOMAIN boards
  IN IF plan.effect = "deleted" THEN
       [ok |-> boardOk /\ c \in DOMAIN cards,
        cards |-> CardRowsWithout(c),
        data |-> [revertedEventId |-> plan.event, before |-> plan.existing, after |-> JNull]]
     ELSE IF plan.effect = "reverted" THEN
       LET ok == /\ boardOk
                 /\ c \in DOMAIN cards
                 /\ "listId" \in DOMAIN plan.updateData => CardListFk(plan.updateData.listId)
           row == IF c \in DOMAIN cards THEN RevertedRow(cards[c], plan.updateData)
                  ELSE RestoredRow(plan.existing)
       IN [ok |-> ok,
           cards |-> IF ok THEN [cards EXCEPT ![c] = row] ELSE cards,
           data |-> [revertedEventId |-> plan.event, before |-> plan.existing,
                     after |-> RowJson(c, row)]]
     ELSE
       LET row == RestoredRow(plan.beforeState)
       IN [ok |-> boardOk /\ c \notin DOMAIN cards /\ CardListFk(row.listId),
           cards |-> cards @@ (c :> row),
           data |-> [revertedEventId |-> plan.event, before |-> JNull,
                     after |-> RowJson(c, row)]]

\* the statements from the first write to the commit
UndoCommitted(plan, actor, w) ==
  /\ Budget
  /\ cards' = w.cards
  /\ LogEvent(plan.boardId, "CARD", plan.entityId, "card.undone", actor, w.data)
  /\ boards' = TouchBoard(boards, plan.boardId)
  /\ nextId' = [nextId EXCEPT !.event = @ + 1]
  /\ clock' = Now
  /\ last' = Response("Undo", "ok", plan.event)
  /\ undoneOk' = undoneOk \cup {plan.event}
  /\ IF plan.event \in DOMAIN events'
     THEN Notify(events'[plan.event].boardId, [reason |-> "event.undone", eventId |-> plan.event])
     ELSE effects' = <<[kind |-> "commit", at |-> Now]>>
  /\ UNCHANGED <<lists, limits, outside>>

\* The handler run as one serial transaction.
Undo(e, actor) ==
  LET plan == UndoReads(e)
  IN IF plan.res # "write" THEN Fail("Undo", plan.res, e)
     ELSE LET w == UndoWrites(plan)
          IN IF ~w.ok THEN Fail("Undo", "error", e)
             ELSE UndoCommitted(plan, actor, w) /\ UNCHANGED inflight

(***************************************************************************)
(* Inputs.  Ids range over the ids ever issued, so that an id can name a   *)
(* row that no longer exists.                                              *)
(***************************************************************************)
BoardIds == 1..(nextId.board - 1)
ListIds == 1..(nextId.list - 1)
CardIds == 1..(nextId.card - 1)
EventIds == 1..(nextId.event - 1)

CreateBodies ==
  {[title |-> t] : t \in CardTitles}
    \cup {[title |-> t, dueAt |-> toISOString("D1")] : t \in CardTitles}

FullPatches ==
  [title : NewCardTitles, description : NewDescriptions, dueAt : {Null, toISOString("D2")}]

UpdatePatches == {Restrict(p, K) : p \in FullPatches, K \in SUBSET {"title", "description", "dueAt"}}

Next ==
  \/ CreateBoard(DefaultBoardName, "a1")
  \/ \E b \in BoardIds : RenameBoard(b, NewBoardName, "a1")
  \/ \E b \in BoardIds : DeleteBoard(b)
  \/ \E b \in BoardIds, t \in ListTitles : CreateList(b, t, "a1")
  \/ \E b \in BoardIds, l \in ListIds : RenameList(b, l, "Backlog", "a1")
  \/ \E b \in BoardIds, l \in ListIds : DeleteList(b, l, "a1")
  \/ \E b \in BoardIds, l \in ListIds, body \in CreateBodies : CreateCard(b, l, body, "a1")
  \/ \E c \in CardIds, p \in UpdatePatches : UpdateCard(c, p, "a1")
  \/ \E c \in CardIds, l \in ListIds, bc, ac \in {NoId} \cup CardIds : MoveCard(c, l, bc, ac, "a1")
  \/ \E c \in CardIds : DeleteCard(c, "a1")
  \/ \E b \in BoardIds, a \in Actors : ClearActivity(b, a)
  \/ \E e \in EventIds : Undo(e, "a1")

Spec == Init /\ [][Next]_vars

(***************************************************************************)
(* SpecDeep: the same handlers, longer behaviours over fewer cards.        *)
(***************************************************************************)
InitDeep == InitWith([ops |-> MaxDeepOps, cards |-> MaxDeepCards, boards |-> MaxBoards])

SpecDeep == InitDeep /\ [][Next]_vars

(***************************************************************************)
(* SpecConc: undo requests run as interactive transactions under READ      *)
(* COMMITTED, so the reads of one request and the writes of another        *)
(* interleave.  UndoBegin runs the handler up to its first write,          *)
(* UndoEnd runs its writes and commits or rolls back.                      *)
(***************************************************************************)
UndoBegin(r, e, actor) ==
  /\ inflight[r].pc = "idle"
  /\ LET plan == UndoReads(e)
     IN IF plan.res # "write" THEN Fail("Undo", plan.res, e)
        ELSE /\ Budget
             /\ inflight' = [inflight EXCEPT ![r] = [pc |-> "write", plan |-> plan,
                                                     actor |-> actor]]
             /\ UNCHANGED <<db, last, undoneOk, limits, effects, outside>>

UndoEnd(r) ==
  /\ inflight[r].pc = "write"
  /\ inflight' = [inflight EXCEPT ![r] = [pc |-> "idle"]]
  /\ LET plan == inflight[r].plan
         w == UndoWrites(plan)
     IN IF ~w.ok
        THEN /\ Budget
             /\ last' = Response("Undo", "error", plan.event)
             /\ effects' = << >>
             /\ UNCHANGED <<db, undoneOk, limits, outside>>
        ELSE UndoCommitted(plan, inflight[r].actor, w)

NextConc ==
  \/ CreateBoard(DefaultBoardName, "a1")
  \/ \E b \in BoardIds, l \in ListIds : CreateCard(b, l, [title |-> "Fix bug"], "a1")
  \/ \E c \in CardIds : UpdateCard(c, [title |-> "Fix crash"], "a1")
  \/ \E c \in CardIds, l \in ListIds : MoveCard(c, l, NoId, NoId, "a1")
  \/ \E c \in CardIds : DeleteCard(c, "a1")
  \/ \E r \in Requests, e \in EventIds : UndoBegin(r, e, "a1")
  \/ \E r \in Requests : UndoEnd(r)

SpecConc == InitDeep /\ [][NextConc]_vars

(***************************************************************************)
(* SpecRestore: cards and lists are deleted on two boards while undo       *)
(* requests run.  Under READ COMMITTED every statement of a transaction    *)
(* sees what has been committed when it runs: UndoLookup runs the reads of *)
(* the event row and of its undo marker, UndoResume the rest of the        *)
(* handler, so another request may commit between the two.                 *)
(***************************************************************************)
InitRestore ==
  InitWith([ops |-> MaxRestoreOps, cards |-> MaxRestoreCards, boards |-> MaxRestoreBoards])

UndoLookup(r, e, actor) ==
  /\ inflight[r].pc = "idle"
  /\ IF e \notin DOMAIN events THEN Fail("Undo", "notFound", e)
     ELSE IF AlreadyUndone(e) THEN Fail("Undo", "alreadyUndone", e)
     ELSE /\ Budget
          /\ inflight' = [inflight EXCEPT ![r] = [pc |-> "read", e |-> e, event |-> events[e],
                                                  actor |-> actor]]
          /\ UNCHANGED <<db, last, undoneOk, limits, effects, outside>>

UndoResume(r) ==
  /\ inflight[r].pc = "read"
  /\ inflight' = [inflight EXCEPT ![r] = [pc |-> "idle"]]
  /\ LET plan == UndoRest(inflight[r].e, inflight[r].event)
         w == UndoWrites(plan)
     IN IF plan.res # "write" \/ ~w.ok
        THEN /\ Budget
             /\ last' = Response("Undo", IF plan.res # "write" THEN plan.res ELSE "error",
                                 inflight[r].e)
             /\ effects' = << >>
             /\ UNCHANGED <<db, undoneOk, limits, outside>>
        ELSE UndoCommitted(plan, inflight[r].actor, w)

\* the undo requests of this specification name events of cards
CardEventIds == {e \in DOMAIN events : events[e].entityType = "CARD"}

NextRestore ==
  \/ CreateBoard(DefaultBoardName, "a1")
  \/ \E b \in BoardIds, l \in ListIds : CreateCard(b, l, [title |-> "Fix bug"], "a1")
  \/ \E c \in CardIds : DeleteCard(c, "a1")
  \/ \E b \in BoardIds, l \in ListIds : RenameList(b, l, "Later", "a1")
  \/ \E b \in BoardIds, l \in ListIds : DeleteList(b, l, "a1")
  \/ \E r \in Requests, e \in CardEventIds : UndoLookup(r, e, "a1")
  \/ \E r \in Requests : UndoResume(r)

SpecRestore == InitRestore /\ [][NextRestore]_vars

(***************************************************************************)
(* SpecBoards: POST /api/boards with its request body, and the other       *)
(* requests on boards and lists.  A body is absent or carries a name; the  *)
(* schema trims the name and requires 1 to 80 characters (no name of the   *)
(* alphabet is longer).                                                    *)
(***************************************************************************)
NoBody == [undefined |-> TRUE]

BoardNames == {"Sprint", " Sprint ", " "}

BoardBodies == {NoBody} \cup {[name |-> n] : n \in BoardNames}

\* z.string().trim()
trim(str) == CASE str = " Sprint " -> "Sprint" [] str = " " -> "" [] OTHER -> str

\* CreateBoardSchema.safeParse(body).success
CreateBoardSchema(body) == body = NoBody \/ trim(body.name) # ""

\* parsed.data?.name ?? "My Board"
ParsedBoardName(body) == IF body = NoBody THEN DefaultBoardName ELSE trim(body.name)

\* the whole POST handler: validation, then the transaction
PostBoard(body, actor) ==
  IF ~CreateBoardSchema(body) THEN Fail("CreateBoard", "invalid", NoId)
  ELSE CreateBoard(ParsedBoardName(body), actor)

InitBoards == InitWith([ops |-> MaxBoardsOps, cards |-> 0, boards |-> MaxBoardsBoards])

NextBoards ==
  \/ \E body \in BoardBodies : PostBoard(body, "a1")
  \/ \E b \in BoardIds : RenameBoard(b, NewBoardName, "a1")
  \/ \E b \in BoardIds : DeleteBoard(b)
  \/ \E b \in BoardIds, t \in ListTitles : CreateList(b, t, "a1")

SpecBoards == InitBoards /\ [][NextBoards]_vars

(***************************************************************************)
(* SpecAppend: CreateList and CreateCard run as interactive transactions   *)
(* under READ COMMITTED.  The Begin step runs the findFirst of the last    *)
(* position, the End step the writes and the commit, so the reads of one   *)
(* request and the writes of another interleave.                           *)
(***************************************************************************)
InitAppend == InitWith([ops |-> MaxAppendOps, cards |-> MaxAppendCards, boards |-> MaxBoards])

Began(r, req) ==
  /\ inflight[r].pc = "idle"
  /\ Budget
  /\ inflight' = [inflight EXCEPT ![r] = req]
  /\ UNCHANGED <<db, last, undoneOk, limits, effects, outside>>

\* the outcome of a transaction that is not the handler run in one step
Ended(r, op, res, id) ==
  /\ Budget
  /\ inflight' = [inflight EXCEPT ![r] = [pc |-> "idle"]]
  /\ last' = Response(op, res, id)
  /\ IF res = "ok" THEN clock' = Now
     ELSE effects' = << >> /\ UNCHANGED <<db, undoneOk>>
  /\ UNCHANGED <<limits, outside>>

CreateListBegin(r, b, title, actor) ==
  Began(r, [pc |-> "list", boardId |-> b, title |-> title, actor |-> actor,
            lastPos |-> LastListPos(b)])

CreateListEnd(r) ==
  /\ inflight[r].pc = "list"
  /\ LET q == inflight[r]
     IN IF q.boardId \notin DOMAIN boards THEN Ended(r, "CreateList", "error", q.boardId)
        ELSE /\ nextId.list <= 3 + MaxAppendLists
             /\ ListCreated(q.boardId, q.title, q.actor, q.lastPos)
             /\ Ended(r, "CreateList", "ok", q.boardId)

CreateCardBegin(r, b, l, body, actor) ==
  Began(r, [pc |-> "card", boardId |-> b, listId |-> l, body |-> body, actor |-> actor,
            lastPos |-> LastCardPos(l)])

CreateCardEnd(r) ==
  /\ inflight[r].pc = "card"
  /\ LET q == inflight[r]
     IN IF q.boardId \notin DOMAIN boards \/ ~CardListFk(q.listId)
        THEN Ended(r, "CreateCard", "error", q.listId)
        ELSE /\ nextId.card <= limits.cards
             /\ CardCreated(q.boardId, q.listId, q.body, q.actor, q.lastPos)
             /\ Ended(r, "CreateCard", "ok", nextId.card)

NextAppend ==
  \/ CreateBoard(DefaultBoardName, "a1")
  \/ \E r \in Requests, b \in BoardIds, t \in ListTitles : CreateListBegin(r, b, t, "a1")
  \/ \E r \in Requests : CreateListEnd(r)
  \/ \E r \in Requests, b \in BoardIds, l \in ListIds :
       CreateCardBegin(r, b, l, [title |-> "Fix bug"], "a1")
  \/ \E r \in Requests : CreateCardEnd(r)

SpecAppend == InitAppend /\ [][NextAppend]_vars

(***************************************************************************)
(* SpecMove: sequences of CreateCard and MoveCard on one board.            *)
(***************************************************************************)
InitMove == InitWith([ops |-> MaxMoveOps, cards |-> MaxMoveCards, boards |-> MaxBoards])

\* neighbour ids a request may carry: none, a card's, or one that names no card
NeighborIds == {NoId} \cup CardIds \cup {nextId.card}

NextMove ==
  \/ CreateBoard(DefaultBoardName, "a1")
  \/ \E b \in BoardIds, l \in ListIds : CreateCard(b, l, [title |-> "Fix bug"], "a1")
  \/ \E c \in CardIds, l \in ListIds, bc, ac \in NeighborIds : MoveCard(c, l, bc, ac, "a1")

SpecMove == InitMove /\ [][NextMove]_vars

(***************************************************************************)
(* SpecReturn: two cards of one board are created, moved and deleted, and  *)
(* the moves are undone.                                                   *)
(***************************************************************************)
InitReturn == InitWith([ops |-> MaxReturnOps, cards |-> MaxReturnCards, boards |-> MaxBoards])

\* the undo requests of this specification name the events of moves
MovedEventIds == {e \in DOMAIN events : events[e].type = "card.moved"}

NextReturn ==
  \/ CreateBoard(DefaultBoardName, "a1")
  \/ \E b \in BoardIds, l \in ListIds : CreateCard(b, l, [title |-> "Fix bug"], "a1")
  \/ \E c \in CardIds, l \in ListIds : MoveCard(c, l, NoId, NoId, "a1")
  \/ \E c \in CardIds : DeleteCard(c, "a1")
  \/ \E e \in MovedEventIds : Undo(e, "a1")

SpecReturn == InitReturn /\ [][NextReturn]_vars

(***************************************************************************)
(* GET /api/boards/[boardId]/activity                                      *)
(* limit: the limit parameter of the query string, [given |-> FALSE] when  *)
(* absent, else [given |-> TRUE, digits |-> <<n>>] when it starts with the *)
(* integer n and [given |-> TRUE, digits |-> << >>] when it does not       *)
(***************************************************************************)
NoLimit == [given |-> FALSE]

LimitOf(n) == [given |-> TRUE, digits |-> <<n>>]

LimitNotNumeric == [given |-> TRUE, digits |-> << >>]

\* url.searchParams.get("limit") ?? "50"
limitRaw(limit) == IF limit.given THEN limit.digits ELSE <<50>>

\* Math.min(Math.max(parseInt(limitRaw, 10) || 50, 1), 200); parseInt gives
\* NaN for << >>, and NaN and 0 are falsy
ParseLimit(limit) ==
  LET parsed == limitRaw(limit)
      n == IF parsed = << >> THEN 50 ELSE IF parsed[1] = 0 THEN 50 ELSE parsed[1]
      atLeast == IF n < 1 THEN 1 ELSE n
  IN IF atLeast > 200 THEN 200 ELSE atLeast

\* variant: the marker of any actor counts
ClearedAtByAnyone(ev, b, actor) ==
  LET markers == {e \in DOMAIN ev : /\ ev[e].boardId = b
                                    /\ ev[e].type = "activity.cleared"}
  IN IF markers = {} THEN << >> ELSE <<MaxOf({ev[e].createdAt : e \in markers})>>

\* findFirst({where: {boardId, type: "activity.cleared", actorClientId},
\*            orderBy: {createdAt: "desc"}})?.createdAt over the event table ev
ClearedAt(ev, b, actor) ==
  LET markers == {e \in DOMAIN ev : /\ ev[e].boardId = b
                                    /\ ev[e].type = "activity.cleared"
                                    /\ ev[e].actorClientId = actor}
  IN IF markers = {} THEN << >> ELSE <<MaxOf({ev[e].createdAt : e \in markers})>>

\* where: {boardId, createdAt: {gt: clearedAt}}
Matching(ev, b, actor) ==
  LET clearedAt == ClearedAt(ev, b, actor)
  IN {e \in DOMAIN ev : /\ ev[e].boardId = b
                        /\ clearedAt # << >> => ev[e].createdAt > clearedAt[1]}

\* orderBy: {createdAt: "desc"}, take: n.  Rows with equal createdAt come in
\* any order, so the answer is one of a set of sequences of event ids.
RECURSIVE Newest(_, _, _)
Newest(ev, S, n) ==
  IF n = 0 \/ S = {} THEN {<< >>}
  ELSE UNION {{<<x>> \o t : t \in Newest(ev, S \ {x}, n - 1)} :
                x \in {y \in S : \A z \in S : ev[z].createdAt <= ev[y].createdAt}}

ActivityResults(ev, b, actor, limit) == Newest(ev, Matching(ev, b, actor), limit)

GetActivity(b, actor, limit) ==
  /\ \E found \in ActivityResults(events, b, actor, ParseLimit(limit)) :
       last' = [op |-> "GetActivity", res |-> "ok", id |-> b, actor |-> actor,
                limit |-> ParseLimit(limit), events |-> found]
  /\ effects' = << >>
  /\ UNCHANGED <<db, undoneOk, inflight, limits, outside>>

(***************************************************************************)
(* SpecActivity: the handlers that write the activity log of two boards,   *)
(* and the activity query.                                                 *)
(***************************************************************************)
LimitInputs == {NoLimit, LimitOf(0), LimitOf(1), LimitOf(300), LimitNotNumeric}

InitActivity ==
  InitWith([ops |-> MaxActivityOps, cards |-> MaxActivityCards, boards |-> MaxActivityBoards])

NextActivity ==
  \/ CreateBoard(DefaultBoardName, "a1")
  \/ \E b \in BoardIds : DeleteBoard(b)
  \/ \E b \in BoardIds, t \in ListTitles : CreateList(b, t, "a1")
  \/ \E b \in BoardIds, l \in ListIds : CreateCard(b, l, [title |-> "Fix bug"], "a1")
  \/ \E c \in CardIds, l \in ListIds : MoveCard(c, l, NoId, NoId, "a1")
  \/ \E b \in BoardIds, a \in Actors : ClearActivity(b, a)
  \/ \E e \in EventIds : Undo(e, "a1")
  \/ \E b \in BoardIds, a \in Actors, lim \in LimitInputs : GetActivity(b, a, lim)

SpecActivity == InitActivity /\ [][NextActivity]_vars

(***************************************************************************)
(* SpecPosition: the position allocator as a pure function.  A behaviour   *)
(* starts with a call and its arguments and Evaluate computes the result.  *)
(***************************************************************************)
\* argument values: multiples of 1/2 from 0 to MaxPosition, their negatives
\* down to -1, and values close above 1 (1 + 1 unit, 1.00005, 1 + 2 units)
PositionArgs ==
  {k * (PosUnit \div 2) : k \in (0 - 2)..(2 * MaxPosition)}
    \cup {PosUnit + 1, PosUnit + 2, PosUnit + PosUnit \div 20000}

OptionalPositionArgs == {<< >>} \cup {<<p>> : p \in PositionArgs}

PositionCalls ==
  [fn : {"positionAfter"}, last : OptionalPositionArgs, out : {<< >>}]
    \cup [fn : {"positionBetween"}, prev : OptionalPositionArgs,
          next : OptionalPositionArgs, out : {<< >>}]

InitPosition ==
  /\ boards = << >> /\ lists = << >> /\ cards = << >> /\ events = << >>
  /\ nextId = [board |-> 1, list |-> 1, card |-> 1, event |-> 1]
  /\ clock = 0
  /\ last = Response("none", "none", NoId)
  /\ undoneOk = {}
  /\ inflight = [r \in Requests |-> [pc |-> "idle"]]
  /\ limits = [ops |-> 0, cards |-> 0, boards |-> 0]
  /\ effects = << >>
  /\ calc \in PositionCalls
  /\ InitRealtime

Evaluate ==
  /\ calc.fn # "none"
  /\ calc.out = << >>
  /\ calc' = [calc EXCEPT !.out =
                 <<IF calc.fn = "positionAfter" THEN positionAfter(calc.last)
                   ELSE positionBetween(calc.prev, calc.next)>>]
  /\ UNCHANGED <<db, last, undoneOk, inflight, limits, effects>>
  /\ UNCHANGED <<subscribersByBoard, streams, delivery, calls, viewer>>

NextPosition == Evaluate

SpecPosition == InitPosition /\ [][NextPosition]_vars

(***************************************************************************)
(* SpecRealtime: the realtime notifier and the event streams of the SSE    *)
(* route.  The registry maps a board id to the callbacks subscribed to it, *)
(* in insertion order; a callback is the sender of one stream and is named *)
(* by the stream's number.  A published event is named by the number of    *)
(* the publish call.  A chunk is a frame the route enqueues on a stream.   *)
(***************************************************************************)
Channels == 1..MaxChannels

Chunk(kind, b, n) == [kind |-> kind, boardId |-> b, seq |-> n]

\* controller.enqueue: the chunk is queued, or the call throws when the
\* stream is no longer readable
Enqueue(st, chunk) ==
  IF st.state = "readable" THEN [st EXCEPT !.written = Append(@, chunk)]
  ELSE [st EXCEPT !.refused = @ + 1]

\* a callback throws when its stream's controller refuses the chunk
Throws(cb) == cb \in DOMAIN streams /\ streams[cb].state # "readable"

Subscribers(reg, b) == IF b \in DOMAIN reg THEN reg[b] ELSE << >>

subscribeToBoard(reg, b, cb) ==
  LET set == Subscribers(reg, b)
      added == IF \E i \in 1..Len(set) : set[i] = cb THEN set ELSE Append(set, cb)
  IN [k \in DOMAIN reg \cup {b} |-> IF k = b THEN added ELSE reg[k]]

\* variant: the closure leaves the entry of a board whose set became empty
unsubscribeKeepingEntry(reg, b, cb) ==
  IF b \notin DOMAIN reg THEN reg
  ELSE [reg EXCEPT ![b] = SelectSeq(reg[b], LAMBDA x : x # cb)]

\* the closure subscribeToBoard returns
unsubscribe(reg, b, cb) ==
  IF b \notin DOMAIN reg THEN reg
  ELSE LET current == SelectSeq(reg[b], LAMBDA x : x # cb)
       IN IF current = << >> THEN [k \in DOMAIN reg \ {b} |-> reg[k]]
          ELSE [reg EXCEPT ![b] = current]

\* variant: the loop over the subscribers has no try/catch
InvokeUntilThrow(subs) ==
  LET bad == {i \in 1..Len(subs) : Throws(subs[i])}
  IN IF bad = {} THEN [invoked |-> subs, threw |-> {}, returned |-> TRUE]
     ELSE LET k == CHOOSE i \in bad : \A j \in bad : i <= j
          IN [invoked |-> SubSeq(subs, 1, k), threw |-> {subs[k]}, returned |-> FALSE]

\* the loop of publishBoardEvent: every callback is called, a throw is caught
InvokeAll(subs) ==
  [invoked |-> subs,
   threw |-> {subs[i] : i \in {j \in 1..Len(subs) : Throws(subs[j])}},
   returned |-> TRUE]

\* variant: publish unsubscribes the callbacks that threw
RegistryWithoutThrowers(reg, b, threw) ==
  IF b \notin DOMAIN reg THEN reg
  ELSE LET current == SelectSeq(reg[b], LAMBDA x : x \notin threw)
       IN IF current = << >> THEN [k \in DOMAIN reg \ {b} |-> reg[k]]
          ELSE [reg EXCEPT ![b] = current]

\* publishBoardEvent reads the registry and writes nothing to it
RegistryAfterPublish(reg, b, threw) == reg

\* variant: a new stream is sent the last event published to its board
GreetingWithReplay(b) ==
  <<Chunk("retry", b, 0), Chunk("hello", b, 0)>>
    \o (IF delivery.seq > 0 /\ delivery.boardId = b
        THEN <<Chunk("board", b, delivery.seq)>> ELSE << >>)

\* what the route enqueues when the stream starts
Greeting(b) == <<Chunk("retry", b, 0), Chunk("hello", b, 0)>>

\* variant: the abort listener leaves the interval running
TeardownKeepingTimer(st) == [st EXCEPT !.aborted = TRUE, !.state = "closed"]

\* the abort listener: clearInterval and controller.close (the unsubscribe
\* between them is in AbortStream)
Teardown(st) == [st EXCEPT !.aborted = TRUE, !.timer = FALSE, !.state = "closed"]

StoreUntouched ==
  UNCHANGED <<db, last, undoneOk, inflight, limits, effects, calc, calls, viewer>>

\* GET /api/boards/:boardId/events: start() of the ReadableStream
OpenStream(b) ==
  /\ Len(streams) < MaxStreams
  /\ streams' = Append(streams, [boardId |-> b, state |-> "readable", timer |-> TRUE,
                                 aborted |-> FALSE, written |-> Greeting(b),
                                 refused |-> 0, ticks |-> 0])
  /\ subscribersByBoard' = subscribeToBoard(subscribersByBoard, b, Len(streams) + 1)
  /\ UNCHANGED delivery
  /\ StoreUntouched

\* the interval of a stream fires
Ping(s) ==
  /\ streams[s].timer
  /\ streams[s].ticks < MaxPings
  /\ streams' = [streams EXCEPT ![s] = [Enqueue(@, Chunk("ping", @.boardId, 0))
                                          EXCEPT !.ticks = @ + 1]]
  /\ UNCHANGED <<subscribersByBoard, delivery>>
  /\ StoreUntouched

\* the request's signal aborts: the listener runs, once
AbortStream(s) ==
  /\ ~streams[s].aborted
  /\ streams' = [streams EXCEPT ![s] = Teardown(@)]
  /\ subscribersByBoard' = unsubscribe(subscribersByBoard, streams[s].boardId, s)
  /\ UNCHANGED delivery
  /\ StoreUntouched

\* the consumer of the response body cancels it; the stream has no cancel
\* handler, so nothing else happens
CancelStream(s) ==
  /\ streams[s].state = "readable"
  /\ streams' = [streams EXCEPT ![s].state = "closed"]
  /\ UNCHANGED <<subscribersByBoard, delivery>>
  /\ StoreUntouched

\* a call of publishBoardEvent(b, "board.changed", ...)
Publish(b) ==
  /\ delivery.seq < MaxPublishes
  /\ LET subs == Subscribers(subscribersByBoard, b)
         d == InvokeAll(subs)
         n == delivery.seq + 1
         times(s) == Cardinality({i \in 1..Len(d.invoked) : d.invoked[i] = s})
     IN /\ delivery' = [seq |-> n, boardId |-> b, invoked |-> d.invoked,
                        threw |-> d.threw, returned |-> d.returned]
        /\ streams' = [s \in DOMAIN streams |->
                         IF times(s) = 0 THEN streams[s]
                         ELSE Enqueue(streams[s], Chunk("board", b, n))]
        /\ subscribersByBoard' = RegistryAfterPublish(subscribersByBoard, b, d.threw)
  /\ StoreUntouched

InitRealtimeOnly == InitWith([ops |-> 0, cards |-> 0, boards |-> 0])

NextRealtime ==
  \/ \E b \in Channels : OpenStream(b)
  \/ \E s \in DOMAIN streams : Ping(s)
  \/ \E s \in DOMAIN streams : AbortStream(s)
  \/ \E s \in DOMAIN streams : CancelStream(s)
  \/ \E b \in Channels : Publish(b)

SpecRealtime == InitRealtimeOnly /\ [][NextRealtime]_vars

(***************************************************************************)
(* SpecRegistry: the notifier called directly.  calls is the log of the    *)
(* calls made so far; the call of subscribeToBoard at index h returns the  *)
(* unsubscribe closure named h, which may be called any number of times.   *)
(* The callbacks of this specification are plain functions that return.    *)
(***************************************************************************)
Callbacks == 1..MaxCallbacks

Call(fn, b, cb, h) == [fn |-> fn, boardId |-> b, cb |-> cb, handle |-> h]

Handles == {h \in 1..Len(calls) : calls[h].fn = "subscribe"}

SubscribeCall(b, cb) ==
  /\ Len(calls) < MaxRegistryCalls
  /\ calls' = Append(calls, Call("subscribe", b, cb, Len(calls) + 1))
  /\ subscribersByBoard' = subscribeToBoard(subscribersByBoard, b, cb)
  /\ UNCHANGED <<db, last, undoneOk, inflight, limits, effects, calc, streams, delivery, viewer>>

\* the closure returned by the subscribe call at index h is called
UnsubscribeCall(h) ==
  /\ Len(calls) < MaxRegistryCalls
  /\ h \in Handles
  /\ calls' = Append(calls, Call("unsubscribe", calls[h].boardId, calls[h].cb, h))
  /\ subscribersByBoard' = unsubscribe(subscribersByBoard, calls[h].boardId, calls[h].cb)
  /\ UNCHANGED <<db, last, undoneOk, inflight, limits, effects, calc, streams, delivery, viewer>>

PublishCall(b) ==
  /\ Len(calls) < MaxRegistryCalls
  /\ calls' = Append(calls, Call("publish", b, 0, 0))
  /\ LET d == InvokeAll(Subscribers(subscribersByBoard, b))
     IN /\ delivery' = [seq |-> delivery.seq + 1, boardId |-> b, invoked |-> d.invoked,
                        threw |-> d.threw, returned |-> d.returned]
        /\ subscribersByBoard' = RegistryAfterPublish(subscribersByBoard, b, d.threw)
  /\ UNCHANGED <<db, last, undoneOk, inflight, limits, effects, calc, streams, viewer>>

NextRegistry ==
  \/ \E b \in Channels, cb \in Callbacks : SubscribeCall(b, cb)
  \/ \E h \in Handles : UnsubscribeCall(h)
  \/ \E b \in Channels : PublishCall(b)

SpecRegistry == InitRealtimeOnly /\ [][NextRegistry]_vars

(***************************************************************************)
(* SpecViewer: one browser tab shows a board (BoardClient) while other     *)
(* clients change it.  viewer.state is the BoardState the page displays    *)
(* (<< >> for null), viewer.fetches the GET /api/boards/:id requests in    *)
(* flight, viewer.es the number of the page's current EventSource,         *)
(* viewer.connected whether the server has subscribed it, viewer.inbox the *)
(* board frames on their way to it, viewer.move the page's move request.   *)
(* A request is sent, served and answered in separate steps.  A handler's  *)
(* publish is the step after its commit.  The page drags at most once.     *)
(***************************************************************************)
\* the elements of S in ascending order of key, ties by id
OrderedBy(S, key) ==
  CHOOSE f \in [1..Cardinality(S) -> S] :
    \A i, j \in 1..Cardinality(S) :
      i < j => \/ key[f[i]] < key[f[j]]
               \/ key[f[i]] = key[f[j]] /\ f[i] < f[j]

\* GET /api/boards/:id: the board with its lists and their cards by position
ApiBoard(b) ==
  LET ls == OrderedBy(ListsOf(b), [l \in ListsOf(b) |-> lists[l].position])
  IN [id |-> b, name |-> boards[b].name,
      lists |-> [i \in 1..Len(ls) |->
                   LET cs == OrderedBy(CardsIn(ls[i]), [c \in CardsIn(ls[i]) |-> cards[c].position])
                   IN [id |-> ls[i], title |-> lists[ls[i]].title,
                       position |-> lists[ls[i]].position,
                       cards |-> [k \in 1..Len(cs) |-> CardJson(cs[k])]]]]

\* the response lists are in position order, so the page's sorts keep them
normalizeBoard(board) ==
  [id |-> board.id, name |-> board.name,
   lists |-> [i \in 1..Len(board.lists) |->
                [id |-> board.lists[i].id, title |-> board.lists[i].title]],
   cardsByList |-> [l \in {board.lists[i].id : i \in 1..Len(board.lists)} |->
                      LET i == CHOOSE k \in 1..Len(board.lists) : board.lists[k].id = l
                      IN board.lists[i].cards]]

\* what the page displays when it has fetched the board as it is stored
DurableState(b) == IF b \in DOMAIN boards THEN <<normalizeBoard(ApiBoard(b))>> ELSE << >>

\* findIndex, 1-based; 0 when no element has the id
IndexOf(seq, id) ==
  IF \E i \in 1..Len(seq) : seq[i].id = id
  THEN CHOOSE i \in 1..Len(seq) : seq[i].id = id /\ \A j \in 1..(i - 1) : seq[j].id # id
  ELSE 0

Remove(seq, i) == SubSeq(seq, 1, i - 1) \o SubSeq(seq, i + 1, Len(seq))

\* splice(i - 1, 0, x)
InsertAt(seq, i, x) == SubSeq(seq, 1, i - 1) \o <<x>> \o SubSeq(seq, i, Len(seq))

arrayMove(seq, from, to) == InsertAt(Remove(seq, from), to, seq[from])

\* A render of the page: useBoardEvents is passed a new onEvent closure, so
\* its effect is cleaned up and run again; the EventSource is closed, with
\* the frames still on their way to it, and a new one is created.
Rerender(v) == [v EXCEPT !.es = @ + 1, !.connected = FALSE, !.inbox = 0]

\* the registry once the page in state v has rendered into state w: the
\* stream of a closed EventSource is aborted and its listener unsubscribes
RegistryAfterRender(v, w) ==
  IF v.connected /\ w.es # v.es
  THEN unsubscribe(subscribersByBoard, v.boardId, v.es)
  ELSE subscribersByBoard

PublishPending == \E i \in 1..Len(effects) : effects[i].kind = "publish"

\* the page's move request has been served and its response is on its way
ResponsePending == viewer.move.phase = "sent" /\ last.op = "MoveCard"

ViewerFrame == UNCHANGED <<db, last, undoneOk, inflight, limits, calc, streams, delivery, calls>>

Fetch(id, phase, status, data) == [id |-> id, phase |-> phase, status |-> status, data |-> data]

\* refresh() up to the fetch: k more requests are in flight
Refreshing(v, k) ==
  [v EXCEPT !.fetches = @ \cup {Fetch(v.nfetch + i, "sent", 0, << >>) : i \in 1..k},
            !.nfetch = @ + k]

\* the page is opened: both effects run, refresh() and new EventSource(...)
ViewerMount(b) ==
  /\ ~viewer.mounted
  /\ b \in DOMAIN boards
  /\ viewer' = Refreshing([NoViewer EXCEPT !.mounted = TRUE, !.boardId = b, !.es = 1], 1)
  /\ UNCHANGED <<effects, subscribersByBoard>>
  /\ ViewerFrame

\* the server answers a GET /api/boards/:id of the page
FetchServe(f) ==
  /\ f \in viewer.fetches /\ f.phase = "sent"
  /\ LET b == viewer.boardId
         answer == IF b \in DOMAIN boards THEN Fetch(f.id, "served", 200, <<ApiBoard(b)>>)
                   ELSE Fetch(f.id, "served", 404, << >>)
     IN viewer' = [viewer EXCEPT !.fetches = (@ \ {f}) \cup {answer}]
  /\ UNCHANGED <<effects, subscribersByBoard>>
  /\ ViewerFrame

\* a response reaches refresh(): setState, and the page renders
FetchArrive(f) ==
  /\ f \in viewer.fetches /\ f.phase = "served"
  /\ LET shown == IF f.status = 200 THEN <<normalizeBoard(f.data[1])>> ELSE << >>
         w == Rerender([viewer EXCEPT !.fetches = @ \ {f}, !.state = shown])
     IN /\ viewer' = w
        /\ subscribersByBoard' = RegistryAfterRender(viewer, w)
  /\ UNCHANGED effects
  /\ ViewerFrame

\* GET /api/boards/:id/events of the current EventSource starts its stream
ViewerConnect ==
  /\ viewer.mounted /\ ~viewer.connected
  /\ viewer' = [viewer EXCEPT !.connected = TRUE]
  /\ subscribersByBoard' = subscribeToBoard(subscribersByBoard, viewer.boardId, viewer.es)
  /\ UNCHANGED effects
  /\ ViewerFrame

\* the handler that committed calls publishBoardEvent
Announce ==
  /\ PublishPending
  /\ LET p == effects[CHOOSE i \in 1..Len(effects) : effects[i].kind = "publish"]
         d == InvokeAll(Subscribers(subscribersByBoard, p.boardId))
         reached == /\ viewer.connected /\ p.boardId = viewer.boardId
                    /\ \E i \in 1..Len(d.invoked) : d.invoked[i] = viewer.es
     IN /\ viewer' = IF reached THEN [viewer EXCEPT !.inbox = @ + 1] ELSE viewer
        /\ delivery' = [seq |-> delivery.seq + 1, boardId |-> p.boardId, invoked |-> d.invoked,
                        threw |-> d.threw, returned |-> d.returned]
        /\ subscribersByBoard' = RegistryAfterPublish(subscribersByBoard, p.boardId, d.threw)
  /\ effects' = SelectSeq(effects, LAMBDA x : x.kind # "publish")
  /\ UNCHANGED <<db, last, undoneOk, inflight, limits, calc, streams, calls>>

\* k board frames reach the EventSource before the page renders: each runs
\* onEvent, which calls refresh() and bumps the activity token
ViewerEvent(k) ==
  /\ k \in 1..viewer.inbox
  /\ LET w == Rerender(Refreshing(viewer, k))
     IN /\ viewer' = w
        /\ subscribersByBoard' = RegistryAfterRender(viewer, w)
  /\ UNCHANGED effects
  /\ ViewerFrame

\* handleDragEnd up to the request: card c, shown in list fromListId, is
\* dropped on list toListId, over card overCardId or on the list itself
ViewerDrag(c, fromListId, toListId, overCardId) ==
  /\ viewer.mounted /\ viewer.state # << >> /\ viewer.move.phase = "none"
  /\ LET st == viewer.state[1]
     IN /\ fromListId \in DOMAIN st.cardsByList /\ toListId \in DOMAIN st.cardsByList
        /\ IndexOf(st.cardsByList[fromListId], c) > 0
        /\ overCardId # NoId => IndexOf(st.cardsByList[toListId], overCardId) > 0
        /\ LET fromCards == st.cardsByList[fromListId]
               toCards == st.cardsByList[toListId]
               activeIndex == IndexOf(fromCards, c)
               overIndex == IF overCardId = NoId THEN 0 ELSE IndexOf(toCards, overCardId)
               finalTo == IF fromListId = toListId
                          THEN (IF overIndex > 0 THEN arrayMove(fromCards, activeIndex, overIndex)
                                ELSE fromCards)
                          ELSE InsertAt(toCards,
                                        IF overIndex > 0 THEN overIndex ELSE Len(toCards) + 1,
                                        [fromCards[activeIndex] EXCEPT !.listId = toListId])
               nextCardsByList ==
                 [l \in DOMAIN st.cardsByList |->
                    IF l = toListId THEN finalTo
                    ELSE IF l = fromListId THEN Remove(fromCards, activeIndex)
                    ELSE st.cardsByList[l]]
               movedIndex == IndexOf(finalTo, c)
               request == [phase |-> "sent", card |-> c, toListId |-> toListId,
                           beforeCardId |-> IF movedIndex > 1 THEN finalTo[movedIndex - 1].id
                                            ELSE NoId,
                           afterCardId |-> IF movedIndex < Len(finalTo)
                                           THEN finalTo[movedIndex + 1].id ELSE NoId,
                           prevState |-> viewer.state]
               w == Rerender([viewer EXCEPT !.state = <<[st EXCEPT !.cardsByList = nextCardsByList]>>,
                                            !.move = request])
           IN /\ viewer' = w
              /\ subscribersByBoard' = RegistryAfterRender(viewer, w)
  /\ UNCHANGED effects
  /\ ViewerFrame

\* the server handles the page's POST /api/cards/:id/move
ViewerMoveServe ==
  /\ viewer.move.phase = "sent"
  /\ ~ResponsePending /\ ~PublishPending
  /\ MoveCard(viewer.move.card, viewer.move.toListId, viewer.move.beforeCardId,
              viewer.move.afterCardId, "a2")

\* the response of the move reaches handleDragEnd: a failure puts prevState back
ViewerMoveSettle ==
  /\ ResponsePending /\ ~PublishPending
  /\ LET w == IF last.res = "ok" THEN [viewer EXCEPT !.move = [phase |-> "done"]]
              ELSE Rerender([viewer EXCEPT !.move = [phase |-> "done"],
                                           !.state = viewer.move.prevState])
     IN /\ viewer' = w
        /\ subscribersByBoard' = RegistryAfterRender(viewer, w)
  /\ UNCHANGED effects
  /\ ViewerFrame

\* a request of another client is handled once the publish of the previous
\* commit has been made and no response to the page is on its way
OtherClient ==
  /\ ~PublishPending /\ ~ResponsePending
  /\ \/ CreateBoard(DefaultBoardName, "a1")
     \/ \E b \in BoardIds, l \in ListIds : CreateCard(b, l, [title |-> "Fix bug"], "a1")
     \/ \E c \in CardIds : UpdateCard(c, [title |-> "Fix crash"], "a1")
     \/ \E c \in CardIds : DeleteCard(c, "a1")

\* the steps that are taken whenever they stay possible
ViewerProgress ==
  \/ \E f \in viewer.fetches : FetchServe(f)
  \/ \E f \in viewer.fetches : FetchArrive(f)
  \/ ViewerConnect
  \/ Announce
  \/ \E k \in 1..viewer.inbox : ViewerEvent(k)
  \/ ViewerMoveServe
  \/ ViewerMoveSettle

InitViewer == InitWith([ops |-> MaxViewerOps, cards |-> MaxViewerCards, boards |-> MaxBoards])

NextViewer ==
  \/ OtherClient
  \/ \E b \in BoardIds : ViewerMount(b)
  \/ \E c \in CardIds, from, to \in ListIds, over \in {NoId} \cup CardIds :
       ViewerDrag(c, from, to, over)
  \/ ViewerProgress

SpecViewer == InitViewer /\ [][NextViewer]_vars /\ WF_vars(ViewerProgress)

(***************************************************************************)
(* Claims.  A step whose new response names an operation is a call of that *)
(* operation: every handler sets last, and no other step does.             *)
(***************************************************************************)
UndoneEvents(e) ==
  {u \in DOMAIN events :
     /\ events[u].type = "card.undone"
     /\ events[u].data.revertedEventId = e}

NewEvents == (DOMAIN events') \ (DOMAIN events)

\* C1: once an Undo of an event has succeeded, every later Undo call on that
\* event, for as long as the event exists, returns alreadyUndone and changes
\* no card, no list, no activity event and no board.
C1_UndoIdempotent ==
  [][(last'.op = "Undo" /\ last'.id \in undoneOk /\ last'.id \in DOMAIN events)
       => (last'.res = "alreadyUndone" /\ UNCHANGED db)]_vars

C1_Witness ==
  /\ last.op = "Undo"
  /\ last.res = "alreadyUndone"
  /\ last.id \in undoneOk
  /\ Cardinality(UndoneEvents(last.id)) = 1

\* C2: the activity log never holds two card.undone events that revert the
\* same original event.
C2_AtMostOneUndone ==
  \A e \in EventIds : Cardinality(UndoneEvents(e)) <= 1

MutatingOps ==
  {"CreateBoard", "RenameBoard", "DeleteBoard", "CreateList", "RenameList", "DeleteList",
   "CreateCard", "UpdateCard", "MoveCard", "DeleteCard"}

DistinctPositions(cf, l) ==
  \A x, y \in {c \in DOMAIN cf : cf[c].listId = l} :
    x # y => cf[x].position # cf[y].position

\* a supplied neighbour id names an existing card of the destination list
ValidNeighbor(l, x) == x = NoId \/ (x \in DOMAIN cards /\ cards[x].listId = l)

\* the moved card sorts after its beforeCard and before its afterCard
SortedBetween(c, bc, ac) ==
  /\ bc # NoId => cards'[bc].position < cards'[c].position
  /\ ac # NoId => cards'[c].position < cards'[ac].position

\* C4 as stated: in a destination list without duplicate positions, a
\* MoveCard whose supplied neighbours exist and are in the destination list
\* (here even: are other cards than the moved one, the beforeCard sorting
\* before the afterCard) leaves no two cards of that list at one position and
\* puts the moved card after its beforeCard and before its afterCard.
C4_ValidNeighborsOrder ==
  [][\A c \in CardIds, l \in ListIds, bc, ac \in {NoId} \cup CardIds :
       ( /\ MoveCard(c, l, bc, ac, "a1")
         /\ last'.res = "ok"
         /\ ValidNeighbor(l, bc) /\ ValidNeighbor(l, ac)
         /\ bc # c /\ ac # c
         /\ (bc # NoId /\ ac # NoId) => cards[bc].position < cards[ac].position
         /\ DistinctPositions(cards, l) )
       => (DistinctPositions(cards', l) /\ SortedBetween(c, bc, ac))]_vars

\* the supplied neighbours are cards other than the moved one that are next
\* to each other in the order of list l: beforeCard directly before afterCard,
\* a lone beforeCard last, a lone afterCard first
AdjacentNeighbors(c, l, bc, ac) ==
  LET others == CardsIn(l) \ {c}
      pos(x) == cards[x].position
  IN /\ bc # c /\ ac # c
     /\ (bc # NoId /\ ac # NoId) =>
          /\ pos(bc) < pos(ac)
          /\ \A x \in others \ {bc, ac} : pos(x) < pos(bc) \/ pos(ac) < pos(x)
          /\ (pos(bc) + pos(ac)) \div 2 \notin {pos(bc), pos(ac)}
     /\ (bc # NoId /\ ac = NoId) => \A x \in others \ {bc} : pos(x) < pos(bc)
     /\ (bc = NoId /\ ac # NoId) => \A x \in others \ {ac} : pos(ac) < pos(x)

\* C4 as amended: in a destination list whose other cards have distinct
\* positions, a MoveCard whose supplied neighbours are cards of that list
\* other than the moved card, adjacent in its order (beforeCard directly
\* before afterCard, a lone beforeCard last, a lone afterCard first), with a
\* midpoint that differs from both neighbour positions, leaves no two cards
\* of the list at one position and puts the moved card after its beforeCard
\* and before its afterCard.
C4_AdjacentNeighborsOrder ==
  [][\A c \in CardIds, l \in ListIds, bc, ac \in {NoId} \cup CardIds :
       ( /\ MoveCard(c, l, bc, ac, "a1")
         /\ last'.res = "ok"
         /\ ValidNeighbor(l, bc) /\ ValidNeighbor(l, ac)
         /\ DistinctPositions([x \in DOMAIN cards \ {c} |-> cards[x]], l)
         /\ AdjacentNeighbors(c, l, bc, ac) )
       => (DistinctPositions(cards', l) /\ SortedBetween(c, bc, ac))]_vars

C4_Witness ==
  /\ last.op = "MoveCard"
  /\ last.res = "ok"
  /\ last.id \in DOMAIN cards
  /\ LET c == last.id
         l == cards[c].listId
     IN /\ DistinctPositions(cards, l)
        /\ \E x, y \in CardsIn(l) \ {c} :
             /\ cards[x].position < cards[c].position
             /\ cards[c].position < cards[y].position
             /\ 2 * cards[c].position = cards[x].position + cards[y].position
             /\ \A z \in CardsIn(l) \ {c, x, y} : FALSE

\* C5: every step keeps each existing activity event as written, except that
\* a successful DeleteBoard removes the events of the board it deletes; so
\* the events of a live board only grow, whatever the operation (ClearActivity
\* and Undo included).
C5_AppendOnly ==
  [][\A e \in DOMAIN events :
       IF e \in DOMAIN events'
       THEN events'[e] = events[e]
       ELSE /\ last'.op = "DeleteBoard"
            /\ last'.res = "ok"
            /\ last'.id = events[e].boardId
            /\ events[e].boardId \notin DOMAIN boards']_vars

C5_Witness ==
  /\ last.op = "ClearActivity"
  /\ last.res = "ok"
  /\ last.id \in DOMAIN boards
  /\ \E e, u, x \in DOMAIN events :
       /\ events[x].type = "activity.cleared"
       /\ events[x].boardId = last.id
       /\ events[x].createdAt = clock
       /\ events[u].type = "card.undone"
       /\ events[u].data.revertedEventId = e
       /\ events[e].boardId = last.id
       /\ e < u /\ u < x

\* C6: Undo of a card.deleted event that has not been undone yet, when the
\* list of its before snapshot still exists on the same board and no card
\* with that id exists, succeeds, recreates the card with the id, boardId,
\* listId, title, description, dueAt and position of the before snapshot, and
\* logs exactly one event, a card.undone whose revertedEventId is the deleted
\* event.
C6_UndoDeletedRestores ==
  [][\A e \in DOMAIN events :
       LET before == events[e].data.before
           c == events[e].entityId
       IN ( /\ events[e].type = "card.deleted"
            /\ UndoneEvents(e) = {}
            /\ Undo(e, "a1")
            /\ ListOnBoard(before.boardId, before.listId)
            /\ c \notin DOMAIN cards )
          => /\ last'.res = "ok"
             /\ c \in DOMAIN cards'
             /\ RowJson(c, cards'[c]) = before
             /\ \A x \in DOMAIN cards : cards'[x] = cards[x]
             /\ Cardinality(NewEvents) = 1
             /\ \A u \in NewEvents :
                  /\ events'[u].type = "card.undone"
                  /\ events'[u].entityId = c
                  /\ events'[u].data.revertedEventId = e]_vars

C6_Witness ==
  /\ last.op = "Undo"
  /\ last.res = "ok"
  /\ last.id \in DOMAIN events
  /\ events[last.id].type = "card.deleted"
  /\ LET c == events[last.id].entityId
     IN /\ c \in DOMAIN cards
        /\ CardJson(c) = events[last.id].data.before
        /\ CardJson(c).dueAt # Null
        /\ Cardinality(UndoneEvents(last.id)) = 1

\* C7: Undo of a card.created event that has not been undone yet deletes the
\* card named by the event and logs exactly one event, a card.undone with
\* before = the snapshot of the card just deleted and after = null; when that
\* card no longer exists the undo answers NotFound and changes nothing.  A
\* card that is absent becomes present again only through another operation
\* that recreates it (the undo of a card.deleted event of that card).
C7_UndoCreatedDeletes ==
  [][/\ \A e \in DOMAIN events :
          LET c == events[e].entityId
          IN ( /\ events[e].type = "card.created"
               /\ UndoneEvents(e) = {}
               /\ Undo(e, "a1") )
             => IF c \in DOMAIN cards
                THEN /\ last'.res = "ok"
                     /\ cards' = [x \in DOMAIN cards \ {c} |-> cards[x]]
                     /\ Cardinality(NewEvents) = 1
                     /\ \A u \in NewEvents :
                          /\ events'[u].type = "card.undone"
                          /\ events'[u].data =
                               [revertedEventId |-> e, before |-> CardJson(c), after |-> JNull]
                ELSE last'.res = "notFound" /\ UNCHANGED db
     /\ \A c \in CardIds :
          (c \notin DOMAIN cards /\ c \in DOMAIN cards')
          => /\ last'.op = "Undo"
             /\ last'.res = "ok"
             /\ events[last'.id].type = "card.deleted"
             /\ events[last'.id].entityId = c]_vars

C7_Witness ==
  /\ last.op = "Undo"
  /\ last.res = "ok"
  /\ last.id \in DOMAIN events
  /\ events[last.id].type = "card.created"
  /\ events[last.id].entityId \notin DOMAIN cards
  /\ \E u \in UndoneEvents(last.id) :
       /\ events[u].data.after = JNull
       /\ events[u].data.before.id = events[last.id].entityId
       /\ events[u].createdAt = clock

\* C8: Undo of a card.updated event that has not been undone yet, run while
\* the card is still as the update left it, succeeds and returns the card's
\* title, description and dueAt to the values of the event's before snapshot,
\* whichever fields the update changed and also when dueAt was null before.
C8_UpdateUndoRestores ==
  [][\A e \in DOMAIN events :
       LET before == events[e].data.before
           c == events[e].entityId
       IN ( /\ events[e].type = "card.updated"
            /\ UndoneEvents(e) = {}
            /\ Undo(e, "a1")
            /\ c \in DOMAIN cards
            /\ CardJson(c) = events[e].data.after )
          => /\ last'.res = "ok"
             /\ c \in DOMAIN cards'
             /\ RowJson(c, cards'[c]).title = before.title
             /\ RowJson(c, cards'[c]).description = before.description
             /\ RowJson(c, cards'[c]).dueAt = before.dueAt]_vars

\* C9: a successful Undo of a card.moved event sets the card's listId and
\* position to the event's before values and leaves its title, description,
\* dueAt and boardId as they are, so an edit made between the move and the
\* undo is still present afterwards.
C9_UndoMovedKeepsEdits ==
  [][\A e \in DOMAIN events :
       LET before == events[e].data.before
           c == events[e].entityId
       IN ( /\ events[e].type = "card.moved"
            /\ Undo(e, "a1")
            /\ last'.res = "ok" )
          => /\ c \in DOMAIN cards /\ c \in DOMAIN cards'
             /\ cards'[c].listId = before.listId
             /\ cards'[c].position = before.position
             /\ cards'[c].title = cards[c].title
             /\ cards'[c].description = cards[c].description
             /\ cards'[c].dueAt = cards[c].dueAt
             /\ cards'[c].boardId = cards[c].boardId
             /\ \A x \in DOMAIN cards \ {c} : x \in DOMAIN cards' /\ cards'[x] = cards[x]]_vars

C9_Witness ==
  /\ last.op = "Undo"
  /\ last.res = "ok"
  /\ last.id \in DOMAIN events
  /\ events[last.id].type = "card.moved"
  /\ LET m == events[last.id]
         c == m.entityId
     IN /\ c \in DOMAIN cards
        /\ cards[c].listId = m.data.before.listId
        /\ cards[c].listId # m.data.after.listId
        /\ cards[c].position = m.data.before.position
        /\ \E u \in DOMAIN events :
             /\ events[u].type = "card.updated"
             /\ events[u].entityId = c
             /\ last.id < u
             /\ events[u].data.before.title # events[u].data.after.title
             /\ events[u].data.after.dueAt # events[u].data.before.dueAt
             /\ cards[c].title = events[u].data.after.title
             /\ CardJson(c).dueAt = events[u].data.after.dueAt

\* C10: a successful MoveCard with neither beforeCardId nor afterCardId gives
\* the moved card position 1 when the destination list holds no card, and
\* otherwise a position greater than that of every card of the list.
C10_AppendPosition ==
  [][\A c \in CardIds, l \in ListIds :
       (MoveCard(c, l, NoId, NoId, "a1") /\ last'.res = "ok")
       => IF CardsIn(l) = {}
          THEN cards'[c].position = PosUnit
          ELSE \A x \in CardsIn(l) : cards[x].position < cards'[c].position]_vars

\* a number held by an optional argument or result
Val(o) == o[1]

\* C11: positionAfter(last) is last + 1, or 1 when last is absent;
\* positionBetween(prev, next) is 0 when both are absent, next - 1 when only
\* prev is absent, prev + 1 when only next is absent, and the midpoint
\* (prev + next) / 2 when both are present and the midpoint differs from both,
\* which for prev < next lies strictly between prev and next.
C11_PositionContract ==
  (calc.fn # "none" /\ calc.out # << >>) =>
    IF calc.fn = "positionAfter"
    THEN Val(calc.out) = (IF calc.last = << >> THEN PosUnit ELSE Val(calc.last) + PosUnit)
    ELSE IF calc.prev = << >> /\ calc.next = << >> THEN Val(calc.out) = 0
    ELSE IF calc.prev = << >> THEN Val(calc.out) = Val(calc.next) - PosUnit
    ELSE IF calc.next = << >> THEN Val(calc.out) = Val(calc.prev) + PosUnit
    ELSE LET sum == Val(calc.prev) + Val(calc.next)
             mid == sum \div 2
         IN (mid # Val(calc.prev) /\ mid # Val(calc.next)) =>
              /\ Val(calc.out) = mid
              /\ 2 * mid <= sum /\ sum < 2 * (mid + 1)
              /\ Val(calc.prev) < Val(calc.next) =>
                   (Val(calc.prev) < Val(calc.out) /\ Val(calc.out) < Val(calc.next))

C11_Witness ==
  /\ calc.fn = "positionBetween"
  /\ calc.prev = <<PosUnit>>
  /\ calc.next = <<3 * PosUnit>>
  /\ calc.out = <<2 * PosUnit>>

\* the call positionBetween(prev, next) has been evaluated and gave out
Evaluated(prev, next, out) ==
  /\ calc.fn = "positionBetween" /\ calc.prev = prev /\ calc.next = next
  /\ calc.out # << >>
  => calc.out = <<out>>

\* C12 as stated: positionBetween(1, 2) = 1.5, positionBetween(null, 5) = 4,
\* positionBetween(7, null) = 8 and positionBetween(1, 1.00005) = 1.0001.
C12_Examples ==
  /\ Evaluated(<<PosUnit>>, <<2 * PosUnit>>, PosUnit + PosUnit \div 2)
  /\ Evaluated(<< >>, <<5 * PosUnit>>, 4 * PosUnit)
  /\ Evaluated(<<7 * PosUnit>>, << >>, 8 * PosUnit)
  /\ Evaluated(<<PosUnit>>, <<PosUnit + PosUnit \div 20000>>, PosUnit + Epsilon)

\* C12 as amended: positionBetween(1, 2) = 1.5, positionBetween(null, 5) = 4,
\* positionBetween(7, null) = 8 and positionBetween(1, 1.00005) = 1.000025,
\* the midpoint, which differs from both arguments so that no fallback
\* is taken.
C12_ExamplesMidpoint ==
  /\ Evaluated(<<PosUnit>>, <<2 * PosUnit>>, PosUnit + PosUnit \div 2)
  /\ Evaluated(<< >>, <<5 * PosUnit>>, 4 * PosUnit)
  /\ Evaluated(<<7 * PosUnit>>, << >>, 8 * PosUnit)
  /\ Evaluated(<<PosUnit>>, <<PosUnit + PosUnit \div 20000>>, PosUnit + PosUnit \div 40000)

C12_Witness ==
  /\ calc.fn = "positionBetween"
  /\ calc.prev = <<PosUnit>>
  /\ calc.next = <<PosUnit + PosUnit \div 20000>>
  /\ calc.out # << >>
  /\ Val(calc.prev) < Val(calc.out) /\ Val(calc.out) < Val(calc.next)

Range(seq) == {seq[i] : i \in 1..Len(seq)}

\* creation times of the activity.cleared markers of an actor on board b
MarkerTimes(b, actor) ==
  {events[e].createdAt : e \in {x \in EventsOf(b) : /\ events[x].type = "activity.cleared"
                                                     /\ events[x].actorClientId = actor}}

\* events of board b created after every marker of the actor
VisibleTo(b, actor) ==
  {e \in EventsOf(b) : \A t \in MarkerTimes(b, actor) : events[e].createdAt > t}

\* the event table without the activity.cleared markers of an actor
WithoutMarkersOf(actor) ==
  [e \in {x \in DOMAIN events : ~(/\ events[x].type = "activity.cleared"
                                  /\ events[x].actorClientId = actor)} |-> events[e]]

\* C13 as stated: an activity query by an actor who cleared the board's
\* activity returns exactly the board's events created after that actor's most
\* recent marker; and for every other actor, the answer without that actor's
\* markers is an answer the same query has when that actor never cleared.
C13_ClearHidesOnlyForActor ==
  last.op = "GetActivity" =>
    /\ MarkerTimes(last.id, last.actor) # {} =>
         Range(last.events) = VisibleTo(last.id, last.actor)
    /\ \A other \in Actors \ {last.actor} :
         SelectSeq(last.events,
                   LAMBDA e : ~(/\ events[e].type = "activity.cleared"
                                /\ events[e].actorClientId = other))
           \in ActivityResults(WithoutMarkersOf(other), last.id, last.actor, last.limit)

\* C13 as amended: an activity query returns, without repetition, the newest
\* L of the board's events created after the calling actor's own most recent
\* activity.cleared marker (of all the board's events when that actor has no
\* marker there), L being the query's limit (50 by default); markers of other
\* actors hide nothing from the caller and are themselves among these events.
C13_ClearHidesNewestForActor ==
  last.op = "GetActivity" =>
    LET got == Range(last.events)
        visible == VisibleTo(last.id, last.actor)
    IN /\ got \subseteq visible
       /\ Cardinality(got) = Len(last.events)
       /\ Len(last.events) =
            (IF Cardinality(visible) < last.limit THEN Cardinality(visible) ELSE last.limit)
       /\ \A x \in got, y \in visible \ got : events[y].createdAt <= events[x].createdAt

C13_Witness ==
  /\ last.op = "GetActivity"
  /\ last.actor = "a1"
  /\ MarkerTimes(last.id, "a1") # {}
  /\ MarkerTimes(last.id, "a2") # {}
  /\ EventsOf(last.id) \ VisibleTo(last.id, "a1") # {}
  /\ Range(last.events) = VisibleTo(last.id, "a1")
  /\ \E e \in Range(last.events) :
       events[e].type = "activity.cleared" /\ events[e].actorClientId = "a2"

\* board ids issued to boards that no longer exist
DeletedBoards == BoardIds \ DOMAIN boards

ReasonOf(op) ==
  CASE op = "CreateBoard" -> "board.created"
    [] op = "RenameBoard" -> "board.renamed"
    [] op = "DeleteBoard" -> "board.deleted"
    [] op = "CreateList" -> "list.created"
    [] op = "RenameList" -> "list.renamed"
    [] op = "DeleteList" -> "list.deleted"
    [] op = "CreateCard" -> "card.created"
    [] op = "UpdateCard" -> "card.updated"
    [] op = "MoveCard" -> "card.moved"
    [] op = "DeleteCard" -> "card.deleted"
    [] op = "ClearActivity" -> "activity.cleared"
    [] op = "Undo" -> "event.undone"

\* indices of the publishes among the effects of a request
Publishes(fx) == {i \in 1..Len(fx) : fx[i].kind = "publish"}

Published == delivery'.seq = delivery.seq + 1

SubscribedTo(reg, b) == {Subscribers(reg, b)[i] : i \in 1..Len(Subscribers(reg, b))}

Invocations(s) == Cardinality({i \in 1..Len(delivery'.invoked) : delivery'.invoked[i] = s})

\* C16: a publish on a board invokes every callback subscribed to that board
\* at the time of the call exactly once, and no callback that is subscribed
\* only to another board; when a callback throws, the others are still
\* invoked (a callback whose stream is readable gets the event written, one
\* whose stream is not has its write refused) and publish returns normally.
C16_PublishReachesEverySubscriber ==
  [][Published =>
       /\ delivery'.returned
       /\ \A s \in DOMAIN streams :
            /\ Invocations(s) =
                 (IF s \in SubscribedTo(subscribersByBoard, delivery'.boardId) THEN 1 ELSE 0)
            /\ Invocations(s) = 1 /\ streams[s].state = "readable"
                 => streams'[s].written
                      = Append(streams[s].written,
                               Chunk("board", delivery'.boardId, delivery'.seq))
            /\ Invocations(s) = 1 /\ streams[s].state # "readable"
                 => /\ s \in delivery'.threw
                    /\ streams'[s].refused = streams[s].refused + 1
            /\ Invocations(s) = 0 => streams'[s] = streams[s]]_vars

\* a publish whose first callback threw, with a later callback that got the
\* event and a callback of another board that was not invoked
C16_Witness ==
  /\ delivery.seq > 0
  /\ delivery.returned
  /\ Len(delivery.invoked) >= 2
  /\ delivery.invoked[1] \in delivery.threw
  /\ \E i \in 2..Len(delivery.invoked) :
       /\ delivery.invoked[i] \notin delivery.threw
       /\ Chunk("board", delivery.boardId, delivery.seq)
            = streams[delivery.invoked[i]].written[Len(streams[delivery.invoked[i]].written)]
  /\ \E s \in DOMAIN streams :
       /\ streams[s].boardId # delivery.boardId
       /\ ~streams[s].aborted
       /\ \A i \in 1..Len(delivery.invoked) : delivery.invoked[i] # s

\* C17: the registry is changed only by subscribe and unsubscribe: a publish,
\* with or without subscribers and whether or not a callback throws, leaves
\* the callbacks registered for every board id exactly as they were.
C17_PublishLeavesRegistry ==
  [][/\ Published => subscribersByBoard' = subscribersByBoard
     /\ subscribersByBoard' # subscribersByBoard
          => \/ /\ Len(streams') = Len(streams) + 1
                /\ subscribersByBoard'
                     = subscribeToBoard(subscribersByBoard,
                                        streams'[Len(streams')].boardId, Len(streams'))
             \/ \E s \in DOMAIN streams :
                  /\ ~streams[s].aborted /\ streams'[s].aborted
                  /\ subscribersByBoard'
                       = unsubscribe(subscribersByBoard, streams[s].boardId, s)]_vars

\* after two publishes, the last one on a board where a callback threw, the
\* registry still holds the thrower, and another board has no subscriber
C17_Witness ==
  /\ delivery.seq = 2
  /\ delivery.threw # {}
  /\ delivery.threw \subseteq SubscribedTo(subscribersByBoard, delivery.boardId)
  /\ \E b \in Channels : b \notin DOMAIN subscribersByBoard

BoardChunks(st) == SelectSeq(st.written, LAMBDA ch : ch.kind = "board")

HasEvent(s, n) == \E i \in 1..Len(streams[s].written) :
                    streams[s].written[i].kind = "board" /\ streams[s].written[i].seq = n

\* C18: a callback receives an event only in the publish call that carries
\* it, and only while subscribed: a stream starts without any board event
\* (nothing published earlier is replayed), an unsubscribed stream is never
\* invoked again and gets no further board event, and a publish without
\* subscribers changes no stream.
C18_NoReplay ==
  [][/\ \A s \in DOMAIN streams' \ DOMAIN streams : BoardChunks(streams'[s]) = << >>
     /\ \A s \in DOMAIN streams :
          BoardChunks(streams'[s]) # BoardChunks(streams[s])
            => /\ Published
               /\ ~streams[s].aborted
               /\ streams[s].boardId = delivery'.boardId
               /\ BoardChunks(streams'[s])
                    = Append(BoardChunks(streams[s]),
                             Chunk("board", delivery'.boardId, delivery'.seq))
     /\ Published
          => /\ \A i \in 1..Len(delivery'.invoked) :
                  /\ delivery'.invoked[i] \in DOMAIN streams
                  /\ ~streams[delivery'.invoked[i]].aborted
             /\ delivery'.invoked = << >> => streams' = streams]_vars

\* two publishes on one board: a stream that unsubscribed between them holds
\* only the first event, a stream that subscribed between them only the second
C18_Witness ==
  /\ delivery.seq = 2
  /\ \E s1, s2 \in DOMAIN streams :
       /\ streams[s1].boardId = streams[s2].boardId
       /\ streams[s1].aborted
       /\ HasEvent(s1, 1) /\ ~HasEvent(s1, 2)
       /\ HasEvent(s2, 2) /\ ~HasEvent(s2, 1)

Registered(s) == \E b \in DOMAIN subscribersByBoard : s \in SubscribedTo(subscribersByBoard, b)

\* C19: when the request of an event stream aborts, that one step removes the
\* stream's subscription from the registry and cancels its keep-alive timer;
\* from then on no ping and no board event is written to the stream, nor is
\* a write to it attempted.
C19_AbortTearsDown ==
  [][\A s \in DOMAIN streams :
       /\ ~streams[s].aborted /\ streams'[s].aborted
            => /\ ~streams'[s].timer
               /\ \A b \in DOMAIN subscribersByBoard' :
                    s \notin SubscribedTo(subscribersByBoard', b)
               /\ streams'[s].state = "closed"
               /\ streams'[s].written = streams[s].written
       /\ streams[s].aborted
            => /\ streams'[s] = streams[s]
               /\ \A b \in DOMAIN subscribersByBoard' :
                    s \notin SubscribedTo(subscribersByBoard', b)
               /\ Published => \A i \in 1..Len(delivery'.invoked) : delivery'.invoked[i] # s]_vars

\* a stream was aborted before its timer ever fired, and a later publish on
\* its board reached another stream but not the aborted one
C19_Witness ==
  \E s \in DOMAIN streams :
    /\ streams[s].aborted
    /\ streams[s].ticks = 0
    /\ ~Registered(s)
    /\ delivery.seq > 0
    /\ delivery.boardId = streams[s].boardId
    /\ delivery.invoked # << >>
    /\ ~HasEvent(s, delivery.seq)
    /\ HasEvent(delivery.invoked[1], delivery.seq)

\* the neighbour id as the handler sees it once the lookup found no card
Found(id) == IF id \in DOMAIN cards THEN id ELSE NoId

\* C20: a move of an existing card fails with a conflict exactly when a
\* supplied beforeCardId or afterCardId names an existing card whose list is
\* not toListId, and then the cards, the activity log and the boards are as
\* before; a supplied neighbour id that names no card gives the same step as
\* the request without it.
C20_ConflictOnForeignNeighbor ==
  [][\A c \in DOMAIN cards, l \in ListIds, bc, ac \in NeighborIds :
       MoveCard(c, l, bc, ac, "a1")
         => /\ last'.res = "conflict"
                 <=> \E n \in {bc, ac} \ {NoId} : n \in DOMAIN cards /\ cards[n].listId # l
            /\ last'.res = "conflict"
                 => cards' = cards /\ events' = events /\ boards' = boards /\ lists' = lists
            /\ MoveCard(c, l, Found(bc), Found(ac), "a1")]_vars

\* a move was refused with a conflict while the moved card stayed where it was
C20_Witness ==
  /\ last.op = "MoveCard"
  /\ last.res = "conflict"
  /\ last.id \in DOMAIN cards
  /\ \E n \in DOMAIN cards : cards[n].listId # cards[last.id].listId

\* the snapshot an undo of a card.deleted event restores from
Snapshot(r) == inflight[r].event.data.before

Resumed(r) == inflight[r].pc = "read" /\ inflight'[r].pc = "idle"

\* C21: when an undo of a card.deleted event (one that has no undo marker)
\* finds that the list of the before snapshot is gone or belongs to another
\* board than the snapshot's boardId, it fails as unsupported; when it finds
\* a card with the snapshot's id, it answers alreadyUndone; both create no
\* card and log no event.
C21_RestoreGuards ==
  [][\A r \in Requests :
       Resumed(r) /\ inflight[r].event.type = "card.deleted"
         => /\ (\/ Snapshot(r).listId \notin DOMAIN lists
                \/ lists[Snapshot(r).listId].boardId # Snapshot(r).boardId)
                 => last'.res = "unsupported" /\ cards' = cards /\ events' = events
            /\ Snapshot(r).id \in DOMAIN cards
                 => last'.res = "alreadyUndone" /\ cards' = cards /\ events' = events]_vars

UnsupportedRestore(e) ==
  /\ last = Response("Undo", "unsupported", e)
  /\ e \in DOMAIN events
  /\ events[e].type = "card.deleted"

\* a restore refused because the snapshot's list was deleted
C21_ListGone ==
  \E e \in DOMAIN events :
    UnsupportedRestore(e) /\ events[e].data.before.listId \notin DOMAIN lists

\* a restore refused because the snapshot's list is a list of another board
C21_ListOfOtherBoard ==
  \E e \in DOMAIN events :
    /\ UnsupportedRestore(e)
    /\ events[e].data.before.listId \in DOMAIN lists
    /\ lists[events[e].data.before.listId].boardId # events[e].data.before.boardId

\* one request has restored the card of a card.deleted event while another
\* request for the same event, past its lookup of the undo marker, is about
\* to look for the card
C21_Witness ==
  \E e \in DOMAIN events, r \in Requests :
    /\ last = Response("Undo", "ok", e)
    /\ inflight[r].pc = "read"
    /\ inflight[r].e = e
    /\ events[e].type = "card.deleted"
    /\ events[e].data.before.id \in DOMAIN cards

UndoableTypes == {"card.created", "card.moved", "card.updated", "card.deleted"}

\* C22: an undo of a BOARD or LIST event (list.deleted and activity.cleared
\* among them) and an undo of a card.undone event fail as unsupported and
\* leave boards, lists, cards and the activity log as they were; an undo
\* that succeeds is the undo of a card.created, card.moved, card.updated or
\* card.deleted event.
C22_OnlyCardChangesUndoable ==
  [][\A e \in DOMAIN events :
       Undo(e, "a1")
         => /\ (events[e].entityType \in {"BOARD", "LIST"} \/ events[e].type = "card.undone")
                 => last'.res = "unsupported" /\ UNCHANGED db
            /\ last'.res = "ok"
                 => events[e].entityType = "CARD" /\ events[e].type \in UndoableTypes]_vars

Refused(type) ==
  \E e \in DOMAIN events : last = Response("Undo", "unsupported", e) /\ events[e].type = type

\* the undo of an undo was refused
C22_Witness == Refused("card.undone")

\* undos of a list deletion and of an activity clear were refused
C22_ListDeletedRefused == Refused("list.deleted")

C22_ClearRefused == Refused("activity.cleared")

Removed == (DOMAIN cards) \ (DOMAIN cards')

C24_ListOfOtherBoardNotFound ==
  [][\A b \in BoardIds, l \in ListIds :
       (l \notin DOMAIN lists \/ lists[l].boardId # b)
         /\ (RenameList(b, l, "Later", "a1") \/ DeleteList(b, l, "a1"))
         => /\ last'.res = "notFound"
            /\ lists' = lists /\ cards' = cards /\ events' = events /\ boards' = boards]_vars

\* a DeleteList was refused with NotFound although the list exists: the
\* request named the other board
C24_Witness ==
  /\ last.op = "DeleteList" /\ last.res = "notFound"
  /\ last.id \in DOMAIN lists
  /\ Cardinality(DOMAIN boards) = 2

\* the same for RenameList, and for a list that no longer exists
C24_RenameRefused ==
  last.op = "RenameList" /\ last.res = "notFound" /\ last.id \in DOMAIN lists

C24_MissingListRefused ==
  last.op \in {"RenameList", "DeleteList"} /\ last.res = "notFound" /\ last.id \notin DOMAIN lists

NewLists == (DOMAIN lists') \ (DOMAIN lists)

\* C25: a POST of a valid body adds, in one step, the board, three lists
\* Todo, Doing, Done of that board at positions 1, 2, 3, one board.created
\* event and one list.created event for each of the three lists, and nothing
\* else; a refused POST adds nothing; no step adds a board without them.
C25_BoardWithDefaults ==
  [][/\ \A body \in BoardBodies :
          PostBoard(body, "a1")
            => IF CreateBoardSchema(body)
               THEN LET b == last'.id
                    IN /\ last'.res = "ok"
                       /\ (DOMAIN boards') \ (DOMAIN boards) = {b}
                       /\ boards'[b].name = ParsedBoardName(body)
                       /\ Cardinality(NewLists) = 3
                       /\ \A i \in 1..3 :
                            \E l \in NewLists :
                              /\ lists'[l] = [boardId |-> b, title |-> DefaultListTitles[i],
                                              position |-> i * PosUnit]
                              /\ Cardinality({e \in NewEvents :
                                                /\ events'[e].type = "list.created"
                                                /\ events'[e].entityId = l
                                                /\ events'[e].boardId = b}) = 1
                       /\ Cardinality(NewEvents) = 4
                       /\ Cardinality({e \in NewEvents :
                                         /\ events'[e].type = "board.created"
                                         /\ events'[e].entityId = b
                                         /\ events'[e].boardId = b}) = 1
                       /\ \A x \in DOMAIN boards : boards'[x] = boards[x]
                       /\ \A x \in DOMAIN lists : lists'[x] = lists[x]
                       /\ \A x \in DOMAIN events : events'[x] = events[x]
               ELSE /\ last'.res = "invalid"
                    /\ boards' = boards /\ lists' = lists /\ events' = events
     /\ (DOMAIN boards') \ (DOMAIN boards) # {} => last'.op = "CreateBoard" /\ last'.res = "ok"]_vars

\* a second board was created with a trimmed name after a POST was refused
\* or not; it has its three lists and four events
C25_Witness ==
  /\ last = Response("CreateBoard", "ok", 2)
  /\ 2 \in DOMAIN boards
  /\ boards[2].name = "Sprint"
  /\ Cardinality({l \in DOMAIN lists : lists[l].boardId = 2}) = 3
  /\ Cardinality({e \in DOMAIN events : events[e].boardId = 2}) = 4

\* a POST was refused and left no board
C25_Refused ==
  last = Response("CreateBoard", "invalid", NoId) /\ boards = << >> /\ lists = << >> /\ events = << >>

NewCards == (DOMAIN cards') \ (DOMAIN cards)

\* C26: the list a CreateList commits has a position greater than that of
\* every list already on its board, and the card a CreateCard commits has a
\* position greater than that of every card already in its list (1 when the
\* list holds none), whether or not another create ran at the same time.
C26_CreatedLast ==
  [][/\ last'.op = "CreateList" /\ last'.res = "ok"
          => \A l \in NewLists, x \in DOMAIN lists :
               lists[x].boardId = lists'[l].boardId => lists[x].position < lists'[l].position
     /\ last'.op = "CreateCard" /\ last'.res = "ok"
          => \A c \in NewCards :
               /\ \A x \in DOMAIN cards :
                    cards[x].listId = cards'[c].listId => cards[x].position < cards'[c].position
               /\ (\A x \in DOMAIN cards : cards[x].listId # cards'[c].listId)
                    => cards'[c].position = PosUnit]_vars

\* the requested limit clamped into [1, 200], 50 when none or no number is given
ClampedLimit(lim) ==
  IF ~lim.given \/ lim.digits = << >> THEN 50
  ELSE IF lim.digits[1] < 1 THEN 1
  ELSE IF lim.digits[1] > 200 THEN 200
  ELSE lim.digits[1]

\* C27: an activity query returns events of the requested board only, newest
\* first, and returns the L newest events visible to the caller, L being the
\* requested limit clamped into [1, 200], or 50 when no limit or no number
\* is given.
C27_NewestUpToLimit ==
  [][\A b \in BoardIds, a \in Actors, lim \in LimitInputs :
       GetActivity(b, a, lim)
         => LET got == last'.events
                visible == VisibleTo(b, a)
                L == ClampedLimit(lim)
            IN /\ \A i \in 1..Len(got) : events[got[i]].boardId = b
               /\ \A i, j \in 1..Len(got) :
                    i < j => /\ got[i] # got[j]
                             /\ events[got[i]].createdAt >= events[got[j]].createdAt
               /\ Range(got) \subseteq visible
               /\ Len(got) = (IF Cardinality(visible) < L THEN Cardinality(visible) ELSE L)
               /\ \A x \in Range(got), y \in visible \ Range(got) :
                    events[y].createdAt <= events[x].createdAt]_vars

\* the row of an entity after the step, as the handlers serialise it
EntityAfter(etype, id) ==
  IF etype = "CARD" THEN RowJson(id, cards'[id])
  ELSE IF etype = "LIST"
  THEN [id |-> id, boardId |-> lists'[id].boardId, title |-> lists'[id].title,
        position |-> lists'[id].position]
  ELSE [id |-> id, name |-> boards'[id].name]

ExistsAfter(etype, id) ==
  IF etype = "CARD" THEN id \in DOMAIN cards'
  ELSE IF etype = "LIST" THEN id \in DOMAIN lists'
  ELSE id \in DOMAIN boards'

\* the entity is in the state the event's after snapshot records
Applied(ev) ==
  IF ev.type = "activity.cleared" THEN ExistsAfter("BOARD", ev.entityId)
  ELSE IF IsNull(ev.data.after) THEN ~ExistsAfter(ev.entityType, ev.entityId)
  ELSE /\ ExistsAfter(ev.entityType, ev.entityId)
       /\ \A k \in DOMAIN ev.data.after :
            EntityAfter(ev.entityType, ev.entityId)[k] = ev.data.after[k]

Changed(table, tableAfter) ==
  {x \in (DOMAIN table) \cup (DOMAIN tableAfter) :
     ~(x \in DOMAIN table /\ x \in DOMAIN tableAfter /\ table[x] = tableAfter[x])}

\* C28: a step of an operation that does not answer ok (validation error,
\* NotFound, conflict, unsupported, invalid data, alreadyUndone, a rolled
\* back transaction) leaves boards, lists, cards and the activity log as they
\* were.  A step that commits shows the whole operation: each event it logs
\* carries the time of the commit, its entity is in the state the event
\* records, and its board has that time as updatedAt; every card, list and
\* board that changed has such an event (the cards of a deleted list go with
\* the list's event).  A committed DeleteBoard leaves no row of the board.
C28_AllOrNothing ==
  [][IF last'.res # "ok"
     THEN boards' = boards /\ lists' = lists /\ cards' = cards /\ events' = events
     ELSE IF last'.op = "DeleteBoard"
     THEN /\ last'.id \notin DOMAIN boards'
          /\ \A l \in DOMAIN lists' : lists'[l].boardId # last'.id
          /\ \A c \in DOMAIN cards' : cards'[c].boardId # last'.id
          /\ \A e \in DOMAIN events' : events'[e].boardId # last'.id
     ELSE /\ clock' = clock + 1
          /\ NewEvents # {}
          /\ \A e \in DOMAIN events : e \in DOMAIN events' /\ events'[e] = events[e]
          /\ \A e \in NewEvents :
               /\ events'[e].createdAt = clock'
               /\ events'[e].boardId \in DOMAIN boards'
               /\ boards'[events'[e].boardId].updatedAt = clock'
               /\ Applied(events'[e])
          /\ \A c \in Changed(cards, cards') :
               \E e \in NewEvents :
                 \/ events'[e].entityType = "CARD" /\ events'[e].entityId = c
                 \/ /\ events'[e].type = "list.deleted"
                    /\ c \in DOMAIN cards /\ cards[c].listId = events'[e].entityId
          /\ \A l \in Changed(lists, lists') :
               \E e \in NewEvents : events'[e].entityType = "LIST" /\ events'[e].entityId = l
          /\ \A b \in Changed(boards, boards') :
               \E e \in NewEvents : events'[e].boardId = b]_vars

\* an update with an empty body was refused while a card and its events exist
C28_Witness ==
  /\ last.op = "UpdateCard" /\ last.res = "invalid"
  /\ last.id \in DOMAIN cards
  /\ \E e \in DOMAIN events : events[e].type = "card.created" /\ events[e].entityId = last.id

\* the board that owns the entity a committed operation worked on
Owner ==
  CASE last'.op \in {"CreateBoard", "RenameBoard", "CreateList", "ClearActivity"} -> last'.id
    [] last'.op \in {"RenameList", "DeleteList"} -> lists[last'.id].boardId
    [] last'.op = "CreateCard" -> cards'[last'.id].boardId
    [] last'.op \in {"UpdateCard", "MoveCard", "DeleteCard"} -> cards[last'.id].boardId
    [] last'.op = "Undo" -> events[last'.id].boardId

\* C29: a step that commits a mutating operation on a board, list or card, a
\* ClearActivity or an Undo that applies an inverse leaves the owning board
\* with the time of that commit as its updatedAt and every other board as it
\* was (a committed DeleteBoard removes its board and leaves the others as
\* they were); a step of an operation that fails or answers alreadyUndone
\* changes no board.
C29_BoardTouched ==
  [][IF last'.res # "ok"
     THEN boards' = boards
     ELSE IF last'.op = "DeleteBoard"
     THEN boards' = [b \in DOMAIN boards \ {last'.id} |-> boards[b]]
     ELSE /\ Owner \in DOMAIN boards'
          /\ boards'[Owner].updatedAt = clock'
          /\ clock' = clock + 1
          /\ boards'[Owner].createdAt <= clock
               => Owner \in DOMAIN boards /\ boards[Owner].updatedAt < clock'
          /\ \A b \in DOMAIN boards' \ {Owner} : b \in DOMAIN boards /\ boards'[b] = boards[b]
          /\ DOMAIN boards \subseteq DOMAIN boards']_vars

\* an undo applied an inverse some time after the board was created, and the
\* board carries the time of the undo
C29_Witness ==
  /\ last.op = "Undo" /\ last.res = "ok"
  /\ last.id \in DOMAIN events
  /\ boards[events[last.id].boardId].updatedAt = clock
  /\ boards[events[last.id].boardId].createdAt < clock - 1

\* C30: in every state each card's boardId is the boardId of the list its
\* listId names.
C30_CardOnBoardOfItsList ==
  \A c \in DOMAIN cards :
    /\ cards[c].listId \in DOMAIN lists
    /\ lists[cards[c].listId].boardId = cards[c].boardId

\* C31: in every state each card's listId names a list that exists; a move
\* into a deleted list and an undo whose before snapshot names a deleted list
\* commit nothing.
C31_CardInExistingList ==
  \A c \in DOMAIN cards : cards[c].listId \in DOMAIN lists

\* an undo of a card.moved event was refused while the list of its before
\* snapshot is gone and the card is still there
C31_Witness ==
  /\ last.op = "Undo" /\ last.res = "error"
  /\ last.id \in DOMAIN events
  /\ events[last.id].type = "card.moved"
  /\ events[last.id].data.before.listId \notin DOMAIN lists
  /\ events[last.id].entityId \in DOMAIN cards

\* a move was refused by the store while some list has been deleted
C31_MoveRefused ==
  /\ last.op = "MoveCard" /\ last.res = "error"
  /\ last.id \in DOMAIN cards
  /\ \E e \in DOMAIN events : events[e].type = "list.deleted"

\* C32: a successful Undo of a card.updated event leaves the card's listId
\* and position as they are when the undo runs, so a move made between the
\* update and the undo is still in effect afterwards.
C32_UndoUpdatedKeepsPlace ==
  [][\A e \in DOMAIN events :
       LET c == events[e].entityId
       IN ( /\ events[e].type = "card.updated"
            /\ Undo(e, "a1")
            /\ last'.res = "ok" )
          => /\ c \in DOMAIN cards /\ c \in DOMAIN cards'
             /\ cards'[c].listId = cards[c].listId
             /\ cards'[c].position = cards[c].position]_vars

\* C33: an Undo of a card.moved event that has not been undone, while the
\* card and the list it was moved from exist, answers ok and puts the card at
\* the listId and position it had before the move, whatever was done to other
\* cards since; the card.undone event it logs carries the card as it was just
\* before the undo and as it is after it.
C33_UndoMovedReturns ==
  [][\A e \in DOMAIN events :
       LET before == events[e].data.before
           c == events[e].entityId
       IN ( /\ events[e].type = "card.moved"
            /\ UndoneEvents(e) = {}
            /\ c \in DOMAIN cards
            /\ before.listId \in DOMAIN lists
            /\ Undo(e, "a1") )
          => /\ last'.res = "ok"
             /\ c \in DOMAIN cards'
             /\ cards'[c].listId = before.listId
             /\ cards'[c].position = before.position
             /\ NewEvents = {nextId.event}
             /\ LET u == events'[nextId.event]
                IN /\ u.type = "card.undone"
                   /\ u.entityId = c
                   /\ u.data.revertedEventId = e
                   /\ u.data.before = CardJson(c)
                   /\ u.data.after = RowJson(c, cards'[c])]_vars

\* the move of a card has been undone after the other card was moved too,
\* and the undo changed the card's list and position
C33_Witness ==
  /\ last.op = "Undo" /\ last.res = "ok"
  /\ last.id \in DOMAIN events
  /\ events[last.id].type = "card.moved"
  /\ LET m == events[last.id]
         c == m.entityId
     IN /\ c \in DOMAIN cards
        /\ cards[c].listId = m.data.before.listId
        /\ cards[c].position = m.data.before.position
        /\ m.data.after.listId # m.data.before.listId
        /\ \E x \in DOMAIN events :
             /\ last.id < x
             /\ events[x].type = "card.moved"
             /\ events[x].entityId # c
             /\ events[x].data.after.listId = m.data.before.listId
        /\ \E u \in UndoneEvents(last.id) :
             /\ events[u].data.before.listId = m.data.after.listId
             /\ events[u].data.after.listId = m.data.before.listId

\* C34: in every state each card.undone event carries a revertedEventId that
\* is the id of an existing event of the same board, of entity type CARD and
\* of type card.created, card.moved, card.updated or card.deleted, and the
\* card.undone event has that event's entityId.
C34_UndoneNamesCardEvent ==
  \A u \in DOMAIN events :
    events[u].type = "card.undone"
      => /\ "revertedEventId" \in DOMAIN events[u].data
         /\ LET e == events[u].data.revertedEventId
            IN /\ e \in DOMAIN events
               /\ events[e].boardId = events[u].boardId
               /\ events[e].entityType = "CARD"
               /\ events[e].type \in {"card.created", "card.moved", "card.updated", "card.deleted"}
               /\ events[u].entityId = events[e].entityId
               /\ events[u].entityType = "CARD"

\* two undos have been logged, for events of two different types
C34_Witness ==
  \E u, v \in DOMAIN events :
    /\ events[u].type = "card.undone" /\ events[v].type = "card.undone"
    /\ events[u].data.revertedEventId \in DOMAIN events
    /\ events[v].data.revertedEventId \in DOMAIN events
    /\ events[events[u].data.revertedEventId].type
         # events[events[v].data.revertedEventId].type

\* the before snapshot of an event as the undo decodes it for its branch
Decoded(e) ==
  LET beforeState == asCardState(events[e].data.before)
  IN IF events[e].type = "card.deleted" \/ ~IsNull(beforeState) THEN beforeState
     ELSE asCardPatch(events[e].data.before)

\* C35: every card.moved, card.updated and card.deleted event in the store
\* carries a before snapshot that the undo accepts, and no Undo call answers
\* invalidData.
C35_SnapshotsAccepted ==
  /\ \A e \in DOMAIN events :
       events[e].type \in {"card.moved", "card.updated", "card.deleted"}
         => /\ "before" \in DOMAIN events[e].data
            /\ ~IsNull(Decoded(e))
            /\ events[e].type = "card.deleted"
                 => {"id", "boardId", "listId"} \subseteq DOMAIN Decoded(e)
            /\ events[e].type # "card.deleted"
                 => (DOMAIN Decoded(e)) \cap CardPatchKeys # {}
  /\ last.op = "Undo" => last.res # "invalidData"

\* the undo of a move has been accepted on a snapshot of listId and position
C35_Witness ==
  /\ last.op = "Undo" /\ last.res = "ok"
  /\ last.id \in DOMAIN events
  /\ events[last.id].type = "card.moved"
  /\ DOMAIN events[last.id].data.before = {"listId", "position"}
  /\ \E e \in DOMAIN events : events[e].type = "card.updated" /\ UndoneEvents(e) = {}

\* the undo of a deletion and of an update has been accepted
C35_FullSnapshotAccepted ==
  /\ last.op = "Undo" /\ last.res = "ok"
  /\ last.id \in DOMAIN events
  /\ events[last.id].type \in {"card.deleted", "card.updated"}
  /\ events[last.id].data.before.dueAt = Null

\* the callbacks subscribed to a board and not unsubscribed since: the last
\* subscribe or unsubscribe call for the board and the callback is a subscribe
Live(b) ==
  {cb \in Callbacks :
     \E i \in 1..Len(calls) :
       /\ calls[i] = Call("subscribe", b, cb, i)
       /\ \A j \in (i + 1)..Len(calls) :
            ~(calls[j].fn = "unsubscribe" /\ calls[j].boardId = b /\ calls[j].cb = cb)}

\* C36: after any sequence of subscribe, unsubscribe and publish calls the
\* registry holds, for each board, exactly the callbacks subscribed to it and
\* not unsubscribed since, each once, and has no entry with an empty set; a
\* publish invokes exactly those callbacks.
C36_RegistryIsLiveSubscriptions ==
  /\ \A b \in DOMAIN subscribersByBoard : subscribersByBoard[b] # << >>
  /\ \A b \in Channels :
       LET set == Subscribers(subscribersByBoard, b)
       IN /\ {set[i] : i \in 1..Len(set)} = Live(b)
          /\ \A i, j \in 1..Len(set) : set[i] = set[j] => i = j
  /\ (calls # << >> /\ calls[Len(calls)].fn = "publish")
       => {delivery.invoked[i] : i \in 1..Len(delivery.invoked)}
            = Live(calls[Len(calls)].boardId)

\* a publish to a board reached one callback after the other callback of the
\* board had been unsubscribed
C36_Witness ==
  /\ calls # << >>
  /\ calls[Len(calls)].fn = "publish"
  /\ Len(delivery.invoked) = 1
  /\ \E j \in 1..Len(calls) :
       /\ calls[j].fn = "unsubscribe"
       /\ calls[j].boardId = delivery.boardId
       /\ calls[j].cb # delivery.invoked[1]
  /\ DOMAIN subscribersByBoard = {delivery.boardId}

\* the unsubscribe closure h has been called
Called(h) == \E j \in 1..Len(calls) : calls[j].fn = "unsubscribe" /\ calls[j].handle = h

\* the subscribe calls whose closure has not been called
Open == {h \in Handles : ~Called(h)}

\* C37: an unsubscribe closure removes only the subscription that created it
\* and is idempotent: a call of a closure that was called before leaves the
\* registry unchanged, whatever was subscribed in between, and a callback
\* stays registered for a board while a subscription of it to that board has
\* not been unsubscribed through its own closure.
C37_UnsubscribeOwnOnly ==
  [][\A h \in Handles :
       UnsubscribeCall(h)
         => /\ Called(h) => subscribersByBoard' = subscribersByBoard
            /\ \A g \in Open \ {h} :
                 \E i \in 1..Len(Subscribers(subscribersByBoard', calls[g].boardId)) :
                   Subscribers(subscribersByBoard', calls[g].boardId)[i] = calls[g].cb]_vars

\* nothing of the page is under way: no fetch, no board frame, no move
\* request, and every commit has been published
Quiet ==
  /\ viewer.mounted
  /\ viewer.fetches = {}
  /\ viewer.inbox = 0
  /\ viewer.move.phase # "sent"
  /\ ~PublishPending

Synced == viewer.state = DurableState(viewer.boardId)

\* C38: from some point on, whenever nothing of the page is under way, it
\* displays the board as it is stored.
C38_EventuallyDurable == <>[](Quiet => Synced)
====
